---- MODULE Spec2Model ----
(***************************************************************************)
(* URLPatternList: a prefix tree over parsed URLPattern parts, the build   *)
(* algorithm (addPattern) and the match algorithm (match), together with   *)
(* the linear reference list the tree is meant to be equivalent to.        *)
(* Spec runs the two public operations as single steps, SpecStepwise runs  *)
(* a match call one loop iteration, call and return at a time, SpecWalk    *)
(* runs three registrations for the rules of the tree walk, and SpecKinds  *)
(* runs patterns of every node kind and modifier.                          *)
(*                                                                         *)
(* Strings are sequences of one-character strings; positions are 0-based   *)
(* as in the source, so the character at position p of s is s[p + 1].      *)
(***************************************************************************)
EXTENDS Integers, Sequences, FiniteSets, TLC

VARIABLES
    nodes,            \* the prefix tree: nodes[1] is #root, children hold indices
    sequenceCounter,  \* URLPatternList.#sequenceCounter
    naive,            \* NaiveURLPatternList.#patterns, fed the same addPattern calls
    call,             \* the last public call and its arguments
    ret,              \* what that call returned, or that it threw
    stack,            \* the call stack of a match in progress, innermost last
    returned          \* the value the last return statement handed back

vars == <<nodes, sequenceCounter, naive, call, ret, stack, returned>>

(***************************************************************************)
(* Bounds of the model.                                                    *)
(***************************************************************************)
MaxPatterns == 2      \* addPattern calls that reach the tree
MaxPathLen == 4       \* characters in a URL pathname

(***************************************************************************)
(* Enumerations of lib/parse-pattern.                                      *)
(***************************************************************************)
Modifier == [None |-> 0, Optional |-> 1, ZeroOrMore |-> 2, OneOrMore |-> 3]

PartType == [Fixed |-> 0, SegmentWildcard |-> 1, FullWildcard |-> 2, Regex |-> 3]

URLComponentType ==
    [Protocol |-> 0, Username |-> 1, Password |-> 2, Hostname |-> 3,
     Port |-> 4, Pathname |-> 5, Search |-> 6, Hash |-> 7]

\* Stands for Number.MAX_SAFE_INTEGER: larger than every sequence number.
MAX_SAFE_INTEGER == 2147483647

(***************************************************************************)
(* JavaScript string operations used by the matcher.                       *)
(***************************************************************************)
Min(a, b) == IF a < b THEN a ELSE b

Max(a, b) == IF a > b THEN a ELSE b

\* s.slice(from): the characters from position from on.
slice(s, from) == SubSeq(s, Min(from, Len(s)) + 1, Len(s))

\* s.slice(from, to)
slice2(s, from, to) == SubSeq(s, Min(from, Len(s)) + 1, Min(to, Len(s)))

\* s.startsWith(t, pos)
startsWith(s, t, pos) ==
    LET start == Min(Max(pos, 0), Len(s))
    IN /\ start + Len(t) <= Len(s)
       /\ \A k \in 1..Len(t) : s[start + k] = t[k]

\* s.indexOf(ch, from) for a one-character ch; -1 when absent.
indexOf(s, ch, from) ==
    LET hits == {k \in from..(Len(s) - 1) : s[k + 1] = ch}
    IN IF hits = {} THEN -1 ELSE CHOOSE k \in hits : \A j \in hits : k <= j

\* s.includes(ch)
includes(s, ch) == \E k \in 1..Len(s) : s[k] = ch

\* x >>> 0 on an index: -1 becomes 2^32 - 1, which slice clamps to the length.
toUint32(x, len) == IF x < 0 THEN len ELSE x

(***************************************************************************)
(* Parts (lib/parse-pattern Part, with the urlComponentType tag that       *)
(* parseFullURL adds).                                                     *)
(***************************************************************************)
Part(type, name, prefix, value, suffix, modifier) ==
    [type |-> type, name |-> name, prefix |-> prefix, value |-> value,
     suffix |-> suffix, modifier |-> modifier]

TagPart(part, urlComponentType) ==
    [type |-> part.type, name |-> part.name, prefix |-> part.prefix,
     value |-> part.value, suffix |-> part.suffix, modifier |-> part.modifier,
     urlComponentType |-> urlComponentType]

(***************************************************************************)
(* URLPattern objects.  A URLPattern holds one pattern per URL component;  *)
(* a component is the catch-all "*" (star), a source text that the parser  *)
(* turns into parts (parts), or a source text the parser rejects (bad).    *)
(***************************************************************************)
ComponentNames ==
    <<"protocol", "username", "password", "hostname", "port", "pathname",
      "search", "hash">>

Star == [src |-> "star", parts |-> <<>>]

Source(parts) == [src |-> "parts", parts |-> parts]

Bad == [src |-> "bad", parts |-> <<>>]

URLPattern(pathname, search) ==
    [protocol |-> Star, username |-> Star, password |-> Star, hostname |-> Star,
     port |-> Star, pathname |-> pathname, search |-> search, hash |-> Star]

Fx(value) == Part(PartType.Fixed, "", <<>>, value, <<>>, Modifier.None)

FxMod(value, modifier) == Part(PartType.Fixed, "", <<>>, value, <<>>, modifier)

Seg(name, prefix, modifier) ==
    Part(PartType.SegmentWildcard, name, prefix, <<>>, <<>>, modifier)

Full(prefix, modifier) ==
    Part(PartType.FullWildcard, "0", prefix, <<>>, <<>>, modifier)

Rx(name, prefix, value, modifier) ==
    Part(PartType.Regex, name, prefix, value, <<>>, modifier)

\* Split into parts the way lib/parse-pattern splits the source text.
PatternPool ==
    { URLPattern(Star, Star),                                   \* {}
      URLPattern(Source(<<Fx(<<"/", "a">>)>>), Star),            \* /a
      URLPattern(Source(<<Fx(<<"/", "a">>)>>),
                 Source(<<Fx(<<"a">>)>>)),                       \* /a ?a
      URLPattern(Source(<<Seg("x", <<"/">>, Modifier.None)>>), Star),   \* /:x
      URLPattern(Source(<<Seg("y", <<"/">>, Modifier.None)>>), Star),   \* /:y
      URLPattern(Source(<<Fx(<<"/", "a">>),
                          Seg("x", <<"/">>, Modifier.None)>>), Star),   \* /a/:x
      URLPattern(Source(<<Seg("x", <<"/">>, Modifier.None),
                          Fx(<<"/", "a">>)>>), Star),            \* /:x/a
      URLPattern(Source(<<Full(<<"/">>, Modifier.None)>>), Star),        \* /*
      URLPattern(Source(<<Rx("x", <<"/">>, <<"a">>, Modifier.None)>>), Star), \* /:x(a)
      URLPattern(Bad, Star) }                                    \* rejected

Payloads == {"v1", "v2"}

(***************************************************************************)
(* parseFullURL: the parts of every component that is not the catch-all,   *)
(* in component order, each tagged with its component; a rejected source   *)
(* makes the parser throw.                                                 *)
(***************************************************************************)
RECURSIVE parseComponents(_, _)
parseComponents(pattern, c) ==
    IF c > 7 THEN <<>>
    ELSE LET comp == pattern[ComponentNames[c + 1]]
             here == IF comp.src = "parts"
                       THEN [k \in 1..Len(comp.parts) |-> TagPart(comp.parts[k], c)]
                       ELSE <<>>
         IN here \o parseComponents(pattern, c + 1)

parseThrows(pattern) ==
    \E c \in 1..8 : pattern[ComponentNames[c]].src = "bad"

parseFullURL(pattern) == parseComponents(pattern, 0)

(***************************************************************************)
(* Nodes.  kind is the class of the node; the fields a class does not      *)
(* declare are left empty.                                                 *)
(***************************************************************************)
Node(kind, urlComponentType, value, modifier, prefix, suffix) ==
    [kind |-> kind, urlComponentType |-> urlComponentType, value |-> value,
     modifier |-> modifier, prefix |-> prefix, suffix |-> suffix,
     regex |-> "null", minSequence |-> MAX_SAFE_INTEGER, patterns |-> <<>>,
     children |-> <<>>]

RootPrefixTreeNode ==
    Node("Root", URLComponentType.Pathname, <<>>, Modifier.None, <<>>, <<>>)

FixedPrefixTreeNode(urlComponentType, value, modifier) ==
    Node("Fixed", urlComponentType, value, modifier, <<>>, <<>>)

WildcardPrefixTreeNode(urlComponentType, modifier, prefix, suffix) ==
    Node("Wildcard", urlComponentType, <<>>, modifier, prefix, suffix)

FullWildcardPrefixTreeNode(urlComponentType, modifier) ==
    Node("FullWildcard", urlComponentType, <<>>, modifier, <<>>, <<>>)

\* A regex source that the evaluator's unicode-sets mode reads as the class
\* "a without b" and that new RegExp without flags rejects (range out of
\* order).
ClassDifference == <<"[", "a", "-", "-", "b", "]">>

\* new RegExp(`^${pattern}$`) returns rather than throws.
RegExpCompiles(regexString) == regexString /= ClassDifference

\* value holds regexString; regex is "null" when the constructor caught the
\* compile error.
RegexPrefixTreeNode(urlComponentType, regexString) ==
    [Node("Regex", urlComponentType, regexString, Modifier.None, <<>>, <<>>)
        EXCEPT !.regex = IF RegExpCompiles(regexString) THEN "compiled" ELSE "null"]

\* A variant in which a segment wildcard node never takes a part as its own.
matchesPartWithoutWildcard(node, part) ==
    CASE node.kind = "Root" -> TRUE
      [] node.kind = "Fixed" ->
            /\ part.type = PartType.Fixed
            /\ part.urlComponentType = node.urlComponentType
            /\ part.value = node.value
            /\ part.modifier = node.modifier
      [] node.kind = "Wildcard" -> FALSE
      [] node.kind = "FullWildcard" ->
            /\ part.type = PartType.FullWildcard
            /\ part.urlComponentType = node.urlComponentType
            /\ part.modifier = node.modifier
      [] node.kind = "Regex" ->
            /\ part.type = PartType.Regex
            /\ part.urlComponentType = node.urlComponentType
            /\ part.value = node.value

matchesPart(node, part) ==
    CASE node.kind = "Root" -> TRUE
      [] node.kind = "Fixed" ->
            /\ part.type = PartType.Fixed
            /\ part.urlComponentType = node.urlComponentType
            /\ part.value = node.value
            /\ part.modifier = node.modifier
      [] node.kind = "Wildcard" ->
            /\ part.type = PartType.SegmentWildcard
            /\ part.urlComponentType = node.urlComponentType
            /\ part.modifier = node.modifier
            /\ part.prefix = node.prefix
            /\ part.suffix = node.suffix
      [] node.kind = "FullWildcard" ->
            /\ part.type = PartType.FullWildcard
            /\ part.urlComponentType = node.urlComponentType
            /\ part.modifier = node.modifier
      [] node.kind = "Regex" ->
            /\ part.type = PartType.Regex
            /\ part.urlComponentType = node.urlComponentType
            /\ part.value = node.value

newNodeFor(part) ==
    CASE part.type = PartType.Fixed ->
            FixedPrefixTreeNode(part.urlComponentType, part.value, part.modifier)
      [] part.type = PartType.SegmentWildcard ->
            WildcardPrefixTreeNode(part.urlComponentType, part.modifier,
                                   part.prefix, part.suffix)
      [] part.type = PartType.FullWildcard ->
            FullWildcardPrefixTreeNode(part.urlComponentType, part.modifier)
      [] part.type = PartType.Regex ->
            RegexPrefixTreeNode(part.urlComponentType, part.value)

\* A variant that never reuses a child: every part gets a node of its own.
getOrCreateChildNodeAlwaysNew(tree, parent, part) ==
    [tree |-> Append([tree EXCEPT ![parent].children = Append(@, Len(tree) + 1)],
                     newNodeFor(part)),
     node |-> Len(tree) + 1]

\* A variant that puts a new child in front of its siblings.
getOrCreateChildNodePrepending(tree, parent, part) ==
    LET kids == tree[parent].children
        found == {k \in 1..Len(kids) : matchesPart(tree[kids[k]], part)}
    IN IF found /= {}
         THEN [tree |-> tree,
               node |-> kids[CHOOSE k \in found : \A j \in found : k <= j]]
         ELSE [tree |-> Append([tree EXCEPT ![parent].children =
                                    <<Len(tree) + 1>> \o @],
                               newNodeFor(part)),
               node |-> Len(tree) + 1]

\* The result is the tree after the call and the index of the child.
getOrCreateChildNode(tree, parent, part) ==
    LET kids == tree[parent].children
        found == {k \in 1..Len(kids) : matchesPart(tree[kids[k]], part)}
    IN IF found /= {}
         THEN [tree |-> tree,
               node |-> kids[CHOOSE k \in found : \A j \in found : k <= j]]
         ELSE [tree |-> Append([tree EXCEPT ![parent].children =
                                    Append(@, Len(tree) + 1)],
                               newNodeFor(part)),
               node |-> Len(tree) + 1]

\* A variant that lowers minSequence at the terminating node only.
RECURSIVE addPatternToTreeLeafMin(_, _, _, _, _)
addPatternToTreeLeafMin(tree, currentNode, parts, componentIndex, item) ==
    IF componentIndex >= Len(parts)
      THEN [tree EXCEPT ![currentNode].patterns = Append(@, item),
                        ![currentNode].minSequence =
                            IF item.sequence < @ THEN item.sequence ELSE @]
      ELSE LET r == getOrCreateChildNode(tree, currentNode,
                                         parts[componentIndex + 1])
           IN addPatternToTreeLeafMin(r.tree, r.node, parts, componentIndex + 1,
                                      item)

\* A variant that also stores the item on the node before a part that may
\* match nothing.
RECURSIVE addPatternToTreeExpandingOptional(_, _, _, _, _)
addPatternToTreeExpandingOptional(tree, currentNode, parts, componentIndex, item) ==
    LET t1 == IF item.sequence < tree[currentNode].minSequence
                THEN [tree EXCEPT ![currentNode].minSequence = item.sequence]
                ELSE tree
    IN IF componentIndex >= Len(parts)
         THEN [t1 EXCEPT ![currentNode].patterns = Append(@, item)]
         ELSE LET part == parts[componentIndex + 1]
                  t2 == IF part.modifier \in {Modifier.Optional, Modifier.ZeroOrMore}
                          THEN [t1 EXCEPT ![currentNode].patterns = Append(@, item)]
                          ELSE t1
                  r == getOrCreateChildNode(t2, currentNode, part)
              IN addPatternToTreeExpandingOptional(r.tree, r.node, parts,
                                                   componentIndex + 1, item)

\* A variant that lowers minSequence at the root only.
RECURSIVE addPatternToTreeRootMin(_, _, _, _, _)
addPatternToTreeRootMin(tree, currentNode, parts, componentIndex, item) ==
    LET t1 == IF currentNode = 1 /\ item.sequence < tree[currentNode].minSequence
                THEN [tree EXCEPT ![currentNode].minSequence = item.sequence]
                ELSE tree
    IN IF componentIndex >= Len(parts)
         THEN [t1 EXCEPT ![currentNode].patterns = Append(@, item)]
         ELSE LET r == getOrCreateChildNode(t1, currentNode,
                                            parts[componentIndex + 1])
              IN addPatternToTreeRootMin(r.tree, r.node, parts, componentIndex + 1,
                                         item)

\* A variant that stamps every node it passes with the item's sequence.
RECURSIVE addPatternToTreeLastMin(_, _, _, _, _)
addPatternToTreeLastMin(tree, currentNode, parts, componentIndex, item) ==
    LET t1 == [tree EXCEPT ![currentNode].minSequence = item.sequence]
    IN IF componentIndex >= Len(parts)
         THEN [t1 EXCEPT ![currentNode].patterns = Append(@, item)]
         ELSE LET r == getOrCreateChildNode(t1, currentNode,
                                            parts[componentIndex + 1])
              IN addPatternToTreeLastMin(r.tree, r.node, parts, componentIndex + 1,
                                         item)

RECURSIVE addPatternToTree(_, _, _, _, _)
addPatternToTree(tree, currentNode, parts, componentIndex, item) ==
    LET t1 == IF item.sequence < tree[currentNode].minSequence
                THEN [tree EXCEPT ![currentNode].minSequence = item.sequence]
                ELSE tree
    IN IF componentIndex >= Len(parts)
         THEN [t1 EXCEPT ![currentNode].patterns = Append(@, item)]
         ELSE LET r == getOrCreateChildNode(t1, currentNode,
                                            parts[componentIndex + 1])
              IN addPatternToTree(r.tree, r.node, parts, componentIndex + 1, item)

(***************************************************************************)
(* URLs.  A URL object carries its components as the platform URL class    *)
(* exposes them: protocol ends with ":", search starts with "?", hash      *)
(* starts with "#", and an absent component is the empty string.           *)
(***************************************************************************)
RECURSIVE PathsOfLen(_, _)
PathsOfLen(alphabet, n) ==
    IF n = 1 THEN {<<"/">>}
    ELSE {Append(s, c) : s \in PathsOfLen(alphabet, n - 1), c \in alphabet}

Pathnames == UNION {PathsOfLen({"/", "a"}, n) : n \in 1..MaxPathLen}

URLs ==
    [protocol : {<<"h", ":">>}, username : {<<>>}, password : {<<>>},
     hostname : {<<"e">>}, port : {<<>>}, pathname : Pathnames,
     search : {<<>>, <<"?", "a">>}, hash : {<<>>}]

\* The arguments of match: a string and an optional base URL.  The string is
\* absolute, relative (it names its target only together with a base URL), or
\* not a URL at all.
MatchInputs ==
    {input \in [form : {"absolute", "relative", "invalid"}, target : URLs,
                baseUrl : BOOLEAN] :
        \/ input.form = "relative" /\ input.baseUrl
        \/ Len(input.target.pathname) = 1 /\ input.target.search = <<>>}

\* new URL(url, baseUrl) throws a TypeError for these inputs.
newURLThrows(input) ==
    \/ input.form = "invalid"
    \/ input.form = "relative" /\ ~input.baseUrl

newURL(input) == input.target

(***************************************************************************)
(* The evaluator: URLPattern.test and URLPattern.exec.  A component        *)
(* pattern accepts a component text when the regular expression the        *)
(* URLPattern standard generates from its parts matches the whole text.    *)
(***************************************************************************)
\* A regex source of the pools is a literal, optionally with "+" on its last
\* character, or the class difference.
RegExpTest(source, text) ==
    IF source = ClassDifference THEN text = <<"a">>
    ELSE IF Len(source) >= 2 /\ source[Len(source)] = "+"
      THEN LET lit == SubSeq(source, 1, Len(source) - 1)
           IN /\ Len(text) >= Len(lit)
              /\ SubSeq(text, 1, Len(lit)) = lit
              /\ \A k \in (Len(lit) + 1)..Len(text) : text[k] = lit[Len(lit)]
      ELSE text = source

\* The character a segment wildcard may not cross in this component.
Delimiter(urlComponentType) ==
    CASE urlComponentType = URLComponentType.Pathname -> "/"
      [] urlComponentType = URLComponentType.Hostname -> "."
      [] OTHER -> ""

literalEnds(lit, s, p) == IF startsWith(s, lit, p) THEN {p + Len(lit)} ELSE {}

\* End positions of the part's own regular expression, started at p.
coreEnds(part, urlComponentType, s, p) ==
    CASE part.type = PartType.Fixed -> literalEnds(part.value, s, p)
      [] part.type = PartType.SegmentWildcard ->
            {q \in (p + 1)..Len(s) :
                \A k \in (p + 1)..q : s[k] /= Delimiter(urlComponentType)}
      [] part.type = PartType.FullWildcard -> p..Len(s)
      [] part.type = PartType.Regex ->
            {q \in p..Len(s) : RegExpTest(part.value, slice2(s, p, q))}

\* One occurrence: prefix, the part's expression, suffix.
onceEnds(part, urlComponentType, s, p) ==
    UNION { UNION { literalEnds(part.suffix, s, q2) :
                      q2 \in coreEnds(part, urlComponentType, s, q1) } :
              q1 \in literalEnds(part.prefix, s, p) }

RECURSIVE repeatEnds(_, _, _, _, _)
repeatEnds(part, urlComponentType, s, frontier, seen) ==
    LET next == UNION {onceEnds(part, urlComponentType, s, q) : q \in frontier}
        fresh == next \ seen
    IN IF fresh = {} THEN seen
       ELSE repeatEnds(part, urlComponentType, s, fresh, seen \cup fresh)

partEnds(part, urlComponentType, s, p) ==
    CASE part.modifier = Modifier.None -> onceEnds(part, urlComponentType, s, p)
      [] part.modifier = Modifier.Optional ->
            onceEnds(part, urlComponentType, s, p) \cup {p}
      [] part.modifier = Modifier.OneOrMore ->
            repeatEnds(part, urlComponentType, s, {p}, {})
      [] part.modifier = Modifier.ZeroOrMore ->
            repeatEnds(part, urlComponentType, s, {p}, {}) \cup {p}

RECURSIVE partsAccept(_, _, _, _, _)
partsAccept(parts, i, urlComponentType, s, p) ==
    IF i > Len(parts) THEN p = Len(s)
    ELSE \E q \in partEnds(parts[i], urlComponentType, s, p) :
            partsAccept(parts, i + 1, urlComponentType, s, q)

componentTest(component, urlComponentType, text) ==
    \/ component.src = "star"
    \/ /\ component.src = "parts"
       /\ partsAccept(component.parts, 1, urlComponentType, text, 0)

\* The component texts a URLPattern is matched against.
componentText(url, c) ==
    CASE c = URLComponentType.Protocol -> slice2(url.protocol, 0, Len(url.protocol) - 1)
      [] c = URLComponentType.Search -> slice(url.search, 1)
      [] c = URLComponentType.Hash -> slice(url.hash, 1)
      [] OTHER -> url[ComponentNames[c + 1]]

\* pattern.test(fullUrl)
test(pattern, url) ==
    \A c \in 0..7 :
        componentTest(pattern[ComponentNames[c + 1]], c, componentText(url, c))

\* pattern.exec(fullUrl): null, or the result with the matched inputs.
exec(pattern, url) ==
    IF test(pattern, url)
      THEN <<[inputs |-> [c \in 0..7 |-> componentText(url, c)],
              pattern |-> pattern]>>
      ELSE <<>>

(***************************************************************************)
(* NaiveURLPatternList: the linear reference.                              *)
(***************************************************************************)
RECURSIVE naiveMatch(_, _, _)
naiveMatch(patterns, k, url) ==
    IF k > Len(patterns) THEN <<>>
    ELSE LET item == patterns[k]
         IN IF test(item.pattern, url) /\ exec(item.pattern, url) /= <<>>
              THEN <<[result |-> exec(item.pattern, url)[1], value |-> item.value]>>
              ELSE naiveMatch(patterns, k + 1, url)

(***************************************************************************)
(* The matcher.  A result is <<>> (null) or <<item>>.                      *)
(***************************************************************************)
\* remaining.split('/')
RECURSIVE split(_)
split(s) ==
    LET i == indexOf(s, "/", 0)
    IN IF i < 0 THEN <<s>>
       ELSE <<slice2(s, 0, i)>> \o split(slice(s, i + 1))

\* consumedLength of the segment loops: the leading slash, the first
\* segmentCount segments and the slashes between them.
RECURSIVE segmentsLength(_, _)
segmentsLength(segments, segmentCount) ==
    IF segmentCount = 0 THEN 0
    ELSE segmentsLength(segments, segmentCount - 1)
           + Len(segments[segmentCount])
           + (IF segmentCount > 1 THEN 1 ELSE 0)

\* The while loop of tryPatternsAndChildren that skips URL components
\* ordered before the child's component.
RECURSIVE skipComponents(_, _, _)
skipComponents(urlComponents, newComponentIndex, childType) ==
    IF /\ newComponentIndex < Len(urlComponents)
       /\ urlComponents[newComponentIndex + 1].type < childType
      THEN skipComponents(urlComponents, newComponentIndex + 1, childType)
      ELSE newComponentIndex

\* The repetition loop of FixedPrefixTreeNode.match: matchCount.
RECURSIVE fixedRepetitions(_, _, _)
fixedRepetitions(value, expectedText, currentIndex) ==
    IF startsWith(value, expectedText, currentIndex)
      THEN 1 + fixedRepetitions(value, expectedText, currentIndex + Len(expectedText))
      ELSE 0

\* Length of the run of characters before the next "/" in s.
RECURSIVE untilSlash(_, _)
untilSlash(s, i) ==
    IF i >= Len(s) \/ s[i + 1] = "/" THEN 0 ELSE 1 + untilSlash(s, i + 1)

matchWithPrefixSuffix(node, remaining, required) ==
    IF Len(remaining) > 0 /\ startsWith(remaining, node.prefix, 0)
      THEN LET afterPrefix == slice(remaining, Len(node.prefix))
           IN IF node.suffix /= <<>>
                THEN LET suffixIndex ==
                             IF \E k \in 0..Len(afterPrefix) :
                                    startsWith(afterPrefix, node.suffix, k)
                               THEN CHOOSE k \in 0..Len(afterPrefix) :
                                      /\ startsWith(afterPrefix, node.suffix, k)
                                      /\ \A j \in 0..(k - 1) :
                                            ~startsWith(afterPrefix, node.suffix, j)
                               ELSE -1
                         content == slice2(afterPrefix, 0, suffixIndex)
                     IN IF suffixIndex > 0
                          THEN IF node.urlComponentType = URLComponentType.Pathname
                                 THEN IF ~includes(content, "/")
                                        THEN Len(node.prefix) + Len(content)
                                               + Len(node.suffix)
                                        ELSE 0
                                 ELSE Len(node.prefix) + Len(content)
                                        + Len(node.suffix)
                          ELSE 0
                ELSE LET contentLength ==
                             IF node.urlComponentType = URLComponentType.Pathname
                               THEN untilSlash(afterPrefix, 0)
                               ELSE Len(afterPrefix)
                     IN IF contentLength > 0
                          THEN Len(node.prefix) + contentLength
                          ELSE 0
      ELSE 0

matchSingleSegment(node, remaining) ==
    IF node.prefix /= <<>> \/ node.suffix /= <<>>
      THEN matchWithPrefixSuffix(node, remaining, TRUE)
    ELSE IF Len(remaining) = 0 THEN 0
    ELSE IF /\ node.urlComponentType = URLComponentType.Pathname
            /\ startsWith(remaining, <<"/">>, 0)
      THEN IF Len(slice(remaining, 1)) = 0 THEN 0
           ELSE 1 + Len(slice(remaining, 1))
      ELSE Len(remaining)

matchMultipleSegments(node, remaining, requireAtLeastOne) ==
    IF node.urlComponentType = URLComponentType.Pathname
      THEN IF Len(remaining) = 0 \/ ~startsWith(remaining, <<"/">>, 0)
             THEN (IF requireAtLeastOne THEN -1 ELSE 0)
             ELSE Len(remaining)
      ELSE IF Len(remaining) = 0
             THEN (IF requireAtLeastOne THEN -1 ELSE 0)
             ELSE Len(remaining)

matchOptionalSegment(node, remaining) ==
    IF node.prefix /= <<>> \/ node.suffix /= <<>>
      THEN matchWithPrefixSuffix(node, remaining, FALSE)
    ELSE IF Len(remaining) = 0 THEN 0
    ELSE IF node.urlComponentType = URLComponentType.Pathname
      THEN IF startsWith(remaining, <<"/">>, 0)
             THEN IF Len(slice(remaining, 1)) = 0 THEN 0
                  ELSE 1 + Len(slice(remaining, 1))
             ELSE Len(remaining)
      ELSE Len(remaining)

\* The while loop of #matchOneOrMoreWithPrefix: totalConsumed.
RECURSIVE prefixedSegments(_, _)
prefixedSegments(node, currentRemaining) ==
    IF ~startsWith(currentRemaining, node.prefix, 0) THEN 0
    ELSE LET afterPrefix == slice(currentRemaining, Len(node.prefix))
             contentLength ==
                 IF node.urlComponentType = URLComponentType.Pathname
                   THEN untilSlash(afterPrefix, 0)
                   ELSE Len(afterPrefix)
             segmentLength == Len(node.prefix) + contentLength
         IN IF Len(afterPrefix) = 0 THEN Len(node.prefix)
            ELSE IF contentLength > 0
              THEN IF node.urlComponentType /= URLComponentType.Pathname
                     THEN segmentLength
                     ELSE segmentLength
                            + prefixedSegments(node, slice(currentRemaining,
                                                           segmentLength))
              ELSE 0

matchOneOrMoreWithPrefix(node, remaining) ==
    IF ~startsWith(remaining, node.prefix, 0) THEN -1
    ELSE LET totalConsumed == prefixedSegments(node, remaining)
         IN IF totalConsumed > 0 THEN totalConsumed ELSE -1

\* A variant that lets nothing through a node whose regex did not compile.
testRegexPatternStrict(node, segment) ==
    IF node.regex /= "null" THEN RegExpTest(node.value, segment) ELSE FALSE

\* RegexPrefixTreeNode.#testRegexPattern
testRegexPattern(node, segment) ==
    IF node.regex /= "null" THEN RegExpTest(node.value, segment) ELSE TRUE

\* A variant that moves on to the next component whenever the current one is
\* consumed.
advanceAlways(tree, n, urlComponents, componentIndex, position) ==
    IF position >= Len(urlComponents[componentIndex + 1].value)
      THEN [componentIndex |-> componentIndex + 1, position |-> 0]
      ELSE [componentIndex |-> componentIndex, position |-> position]

\* A variant that keeps the position when it moves to the next component.
advanceKeepingPosition(tree, n, urlComponents, componentIndex, position) ==
    LET value == urlComponents[componentIndex + 1].value
        type == urlComponents[componentIndex + 1].type
        hasChildrenWithSameComponent ==
            \E k \in 1..Len(tree[n].children) :
                tree[tree[n].children[k]].urlComponentType = type
    IN IF position >= Len(value) /\ ~hasChildrenWithSameComponent
         THEN [componentIndex |-> componentIndex + 1, position |-> position]
         ELSE [componentIndex |-> componentIndex, position |-> position]

\* tryPatternsAndChildren: advancedComponentIndex and advancedPosition.
advance(tree, n, urlComponents, componentIndex, position) ==
    LET value == urlComponents[componentIndex + 1].value
        type == urlComponents[componentIndex + 1].type
        hasChildrenWithSameComponent ==
            \E k \in 1..Len(tree[n].children) :
                tree[tree[n].children[k]].urlComponentType = type
    IN IF position >= Len(value) /\ ~hasChildrenWithSameComponent
         THEN [componentIndex |-> componentIndex + 1, position |-> 0]
         ELSE [componentIndex |-> componentIndex, position |-> position]

\* tryPatternsAndChildren: where the loop over this.children starts a child,
\* <<>> when it skips the child for want of a component of its type.
childStart(tree, childNode, urlComponents, advancedComponentIndex, advancedPosition) ==
    LET childType == tree[childNode].urlComponentType
        newComponentIndex ==
            skipComponents(urlComponents, advancedComponentIndex, childType)
        newPosition ==
            IF newComponentIndex > advancedComponentIndex THEN 0 ELSE advancedPosition
    IN IF \/ newComponentIndex = Len(urlComponents)
          \/ urlComponents[newComponentIndex + 1].type > childType
         THEN <<>>
         ELSE <<[componentIndex |-> newComponentIndex, position |-> newPosition]>>

RECURSIVE match(_, _, _, _, _, _)
RECURSIVE tryPatternsAndChildren(_, _, _, _, _, _)
RECURSIVE tryChildren(_, _, _, _, _, _, _, _)
RECURSIVE firstMatch(_, _, _, _, _, _)

\* The loop over this.patterns: bestMatch after the items from k on.
RECURSIVE tryPatterns(_, _, _, _)
tryPatterns(patterns, k, bestMatch, fullUrl) ==
    IF k > Len(patterns) THEN bestMatch
    ELSE LET item == patterns[k]
         IN IF bestMatch /= <<>> /\ item.sequence > bestMatch[1].sequence
              THEN tryPatterns(patterns, k + 1, bestMatch, fullUrl)
            ELSE IF /\ test(item.pattern, fullUrl)
                    /\ (bestMatch = <<>> \/ item.sequence < bestMatch[1].sequence)
              THEN tryPatterns(patterns, k + 1, <<item>>, fullUrl)
              ELSE tryPatterns(patterns, k + 1, bestMatch, fullUrl)

\* A variant that keeps the first match a child returns.
RECURSIVE tryChildrenFirstWins(_, _, _, _, _, _, _, _)
tryChildrenFirstWins(tree, n, k, bestMatch, urlComponents, advancedComponentIndex, advancedPosition, fullUrl) ==
    IF k > Len(tree[n].children) THEN bestMatch
    ELSE LET childNode == tree[n].children[k]
             start == childStart(tree, childNode, urlComponents,
                                 advancedComponentIndex, advancedPosition)
             newMatch == match(tree, childNode, urlComponents,
                               start[1].componentIndex, start[1].position, fullUrl)
         IN IF /\ bestMatch /= <<>>
               /\ tree[childNode].minSequence > bestMatch[1].sequence
              THEN tryChildrenFirstWins(tree, n, k + 1, bestMatch, urlComponents,
                               advancedComponentIndex, advancedPosition, fullUrl)
            ELSE IF start = <<>>
              THEN tryChildrenFirstWins(tree, n, k + 1, bestMatch, urlComponents,
                               advancedComponentIndex, advancedPosition, fullUrl)
            ELSE IF /\ newMatch /= <<>>
                    /\ bestMatch = <<>>
              THEN tryChildrenFirstWins(tree, n, k + 1, newMatch, urlComponents,
                               advancedComponentIndex, advancedPosition, fullUrl)
              ELSE tryChildrenFirstWins(tree, n, k + 1, bestMatch, urlComponents,
                               advancedComponentIndex, advancedPosition, fullUrl)

\* A variant whose pruning test is the wrong way round.
RECURSIVE tryChildrenPruningReversed(_, _, _, _, _, _, _, _)
tryChildrenPruningReversed(tree, n, k, bestMatch, urlComponents, advancedComponentIndex, advancedPosition, fullUrl) ==
    IF k > Len(tree[n].children) THEN bestMatch
    ELSE LET childNode == tree[n].children[k]
             start == childStart(tree, childNode, urlComponents,
                                 advancedComponentIndex, advancedPosition)
             newMatch == match(tree, childNode, urlComponents,
                               start[1].componentIndex, start[1].position, fullUrl)
         IN IF /\ bestMatch /= <<>>
               /\ tree[childNode].minSequence < bestMatch[1].sequence
              THEN tryChildrenPruningReversed(tree, n, k + 1, bestMatch, urlComponents,
                               advancedComponentIndex, advancedPosition, fullUrl)
            ELSE IF start = <<>>
              THEN tryChildrenPruningReversed(tree, n, k + 1, bestMatch, urlComponents,
                               advancedComponentIndex, advancedPosition, fullUrl)
            ELSE IF /\ newMatch /= <<>>
                    /\ (bestMatch = <<>>
                          \/ newMatch[1].sequence < bestMatch[1].sequence)
              THEN tryChildrenPruningReversed(tree, n, k + 1, newMatch, urlComponents,
                               advancedComponentIndex, advancedPosition, fullUrl)
              ELSE tryChildrenPruningReversed(tree, n, k + 1, bestMatch, urlComponents,
                               advancedComponentIndex, advancedPosition, fullUrl)

\* The loop over this.children without the pruning test.
RECURSIVE tryChildrenUnpruned(_, _, _, _, _, _, _, _)
tryChildrenUnpruned(tree, n, k, bestMatch, urlComponents, advancedComponentIndex, advancedPosition, fullUrl) ==
    IF k > Len(tree[n].children) THEN bestMatch
    ELSE LET childNode == tree[n].children[k]
             start == childStart(tree, childNode, urlComponents,
                                 advancedComponentIndex, advancedPosition)
             newMatch == match(tree, childNode, urlComponents,
                               start[1].componentIndex, start[1].position, fullUrl)
         IN IF FALSE
              THEN tryChildrenUnpruned(tree, n, k + 1, bestMatch, urlComponents,
                               advancedComponentIndex, advancedPosition, fullUrl)
            ELSE IF start = <<>>
              THEN tryChildrenUnpruned(tree, n, k + 1, bestMatch, urlComponents,
                               advancedComponentIndex, advancedPosition, fullUrl)
            ELSE IF /\ newMatch /= <<>>
                    /\ (bestMatch = <<>>
                          \/ newMatch[1].sequence < bestMatch[1].sequence)
              THEN tryChildrenUnpruned(tree, n, k + 1, newMatch, urlComponents,
                               advancedComponentIndex, advancedPosition, fullUrl)
              ELSE tryChildrenUnpruned(tree, n, k + 1, bestMatch, urlComponents,
                               advancedComponentIndex, advancedPosition, fullUrl)

\* The loop over this.children: bestMatch after the children from k on.
tryChildren(tree, n, k, bestMatch, urlComponents, advancedComponentIndex, advancedPosition, fullUrl) ==
    IF k > Len(tree[n].children) THEN bestMatch
    ELSE LET childNode == tree[n].children[k]
             start == childStart(tree, childNode, urlComponents,
                                 advancedComponentIndex, advancedPosition)
             newMatch == match(tree, childNode, urlComponents,
                               start[1].componentIndex, start[1].position, fullUrl)
         IN IF /\ bestMatch /= <<>>
               /\ tree[childNode].minSequence > bestMatch[1].sequence
              THEN tryChildren(tree, n, k + 1, bestMatch, urlComponents,
                               advancedComponentIndex, advancedPosition, fullUrl)
            ELSE IF start = <<>>
              THEN tryChildren(tree, n, k + 1, bestMatch, urlComponents,
                               advancedComponentIndex, advancedPosition, fullUrl)
            ELSE IF /\ newMatch /= <<>>
                    /\ (bestMatch = <<>>
                          \/ newMatch[1].sequence < bestMatch[1].sequence)
              THEN tryChildren(tree, n, k + 1, newMatch, urlComponents,
                               advancedComponentIndex, advancedPosition, fullUrl)
              ELSE tryChildren(tree, n, k + 1, bestMatch, urlComponents,
                               advancedComponentIndex, advancedPosition, fullUrl)

tryPatternsAndChildren(tree, n, urlComponents, componentIndex, position, fullUrl) ==
    LET value == urlComponents[componentIndex + 1].value
        consumed == position >= Len(value)
        advancedComponentIndex ==
            advance(tree, n, urlComponents, componentIndex, position).componentIndex
        advancedPosition ==
            advance(tree, n, urlComponents, componentIndex, position).position
        fromChildren ==
            tryChildren(tree, n, 1, <<>>, urlComponents, advancedComponentIndex,
                        advancedPosition, fullUrl)
        isLastComponent == advancedComponentIndex >= Len(urlComponents)
    IN IF consumed /\ (isLastComponent \/ fromChildren = <<>>)
         THEN tryPatterns(tree[n].patterns, 1, fromChildren, fullUrl)
         ELSE fromChildren

\* A backtracking loop: the first non-null result of tryPatternsAndChildren
\* over the positions, tried in order.
firstMatch(tree, n, urlComponents, componentIndex, positions, fullUrl) ==
    IF positions = <<>> THEN <<>>
    ELSE LET m == tryPatternsAndChildren(tree, n, urlComponents, componentIndex,
                                         Head(positions), fullUrl)
         IN IF m /= <<>> THEN m
            ELSE firstMatch(tree, n, urlComponents, componentIndex,
                            Tail(positions), fullUrl)

\* A variant whose optional literal is skipped when consuming it leads nowhere.
FixedMatchRetrying(tree, n, urlComponents, componentIndex, position, fullUrl) ==
    LET node == tree[n]
        value == urlComponents[componentIndex + 1].value
        expectedText == node.value
        matchCount == fixedRepetitions(value, expectedText, position)
        consumedLength == matchCount * Len(expectedText)
        minimumMatches == IF node.modifier = Modifier.OneOrMore THEN 1 ELSE 0
        consumed == tryPatternsAndChildren(tree, n, urlComponents, componentIndex,
                                           position + Len(expectedText), fullUrl)
    IN IF node.modifier \in {Modifier.OneOrMore, Modifier.ZeroOrMore}
         THEN IF matchCount >= minimumMatches
                THEN tryPatternsAndChildren(tree, n, urlComponents, componentIndex,
                                            position + consumedLength, fullUrl)
                ELSE <<>>
       ELSE IF startsWith(value, expectedText, position)
         THEN IF node.modifier = Modifier.Optional /\ consumed = <<>>
                THEN tryPatternsAndChildren(tree, n, urlComponents, componentIndex,
                                            position, fullUrl)
                ELSE consumed
       ELSE IF node.modifier = Modifier.Optional
         THEN tryPatternsAndChildren(tree, n, urlComponents, componentIndex,
                                     position, fullUrl)
         ELSE <<>>

FixedMatch(tree, n, urlComponents, componentIndex, position, fullUrl) ==
    LET node == tree[n]
        value == urlComponents[componentIndex + 1].value
        expectedText == node.value
        matchCount == fixedRepetitions(value, expectedText, position)
        consumedLength == matchCount * Len(expectedText)
        minimumMatches == IF node.modifier = Modifier.OneOrMore THEN 1 ELSE 0
    IN IF node.modifier \in {Modifier.OneOrMore, Modifier.ZeroOrMore}
         THEN IF matchCount >= minimumMatches
                THEN tryPatternsAndChildren(tree, n, urlComponents, componentIndex,
                                            position + consumedLength, fullUrl)
                ELSE <<>>
       ELSE IF startsWith(value, expectedText, position)
         THEN tryPatternsAndChildren(tree, n, urlComponents, componentIndex,
                                     position + Len(expectedText), fullUrl)
       ELSE IF node.modifier = Modifier.Optional
         THEN tryPatternsAndChildren(tree, n, urlComponents, componentIndex,
                                     position, fullUrl)
         ELSE <<>>

\* The positions the segment loops try: after 1, 2, ... segments.
segmentPositions(remaining, position) ==
    IF Len(remaining) > 0 /\ startsWith(remaining, <<"/">>, 0)
      THEN LET segments == Tail(split(remaining))
           IN [segmentCount \in 1..Len(segments) |->
                  position + 1 + segmentsLength(segments, segmentCount)]
      ELSE <<>>

\* A variant that keeps the lowest sequence over all content lengths of a
\* prefixed wildcard with children.
WildcardMatchLowestOfAll(tree, n, urlComponents, componentIndex, position, fullUrl) ==
    LET node == tree[n]
        value == urlComponents[componentIndex + 1].value
        remaining == slice(value, position)
        hasChildren == Len(node.children) > 0
        zeroMatch == tryPatternsAndChildren(tree, n, urlComponents, componentIndex,
                                            position, fullUrl)
        afterPrefix == slice(remaining, Len(node.prefix))
        consumedChars ==
            CASE node.modifier = Modifier.None -> matchSingleSegment(node, remaining)
              [] node.modifier = Modifier.ZeroOrMore ->
                    IF node.prefix /= <<>> /\ node.prefix /= <<"/">>
                      THEN matchWithPrefixSuffix(node, remaining, FALSE)
                      ELSE matchMultipleSegments(node, remaining, FALSE)
              [] node.modifier = Modifier.OneOrMore ->
                    IF node.prefix /= <<>> /\ node.prefix /= <<"/">>
                      THEN matchOneOrMoreWithPrefix(node, remaining)
                      ELSE matchMultipleSegments(node, remaining, TRUE)
              [] node.modifier = Modifier.Optional ->
                    matchOptionalSegment(node, remaining)
        zeroFirst == node.modifier \in {Modifier.ZeroOrMore, Modifier.Optional}
        found == {tryPatternsAndChildren(tree, n, urlComponents, componentIndex,
                      position + Len(node.prefix) + contentLength, fullUrl) :
                      contentLength \in 1..Len(afterPrefix)} \ {<<>>}
    IN IF node.modifier = Modifier.ZeroOrMore /\ hasChildren
         THEN IF zeroMatch /= <<>> THEN zeroMatch
              ELSE firstMatch(tree, n, urlComponents, componentIndex,
                              segmentPositions(remaining, position), fullUrl)
       ELSE IF node.modifier = Modifier.OneOrMore /\ hasChildren
         THEN firstMatch(tree, n, urlComponents, componentIndex,
                         segmentPositions(remaining, position), fullUrl)
       ELSE IF node.modifier = Modifier.None /\ hasChildren
         THEN IF node.prefix /= <<>> \/ node.suffix /= <<>>
                THEN IF ~startsWith(remaining, node.prefix, 0) THEN <<>>
                     ELSE IF Len(afterPrefix) = 0 THEN <<>>
                     ELSE IF found = {} THEN <<>>
                     ELSE CHOOSE r \in found :
                              \A r2 \in found : r[1].sequence <= r2[1].sequence
                ELSE IF Len(remaining) = 0 THEN <<>>
                     ELSE firstMatch(tree, n, urlComponents, componentIndex,
                              [contentLength \in 1..Len(remaining) |->
                                  position + contentLength],
                              fullUrl)
       ELSE IF zeroFirst /\ zeroMatch /= <<>> THEN zeroMatch
       ELSE IF consumedChars > 0
         THEN tryPatternsAndChildren(tree, n, urlComponents, componentIndex,
                                     position + consumedChars, fullUrl)
       ELSE IF node.modifier = Modifier.OneOrMore /\ consumedChars = 0
         THEN zeroMatch
         ELSE <<>>

WildcardMatch(tree, n, urlComponents, componentIndex, position, fullUrl) ==
    LET node == tree[n]
        value == urlComponents[componentIndex + 1].value
        remaining == slice(value, position)
        hasChildren == Len(node.children) > 0
        zeroMatch == tryPatternsAndChildren(tree, n, urlComponents, componentIndex,
                                            position, fullUrl)
        afterPrefix == slice(remaining, Len(node.prefix))
        consumedChars ==
            CASE node.modifier = Modifier.None -> matchSingleSegment(node, remaining)
              [] node.modifier = Modifier.ZeroOrMore ->
                    IF node.prefix /= <<>> /\ node.prefix /= <<"/">>
                      THEN matchWithPrefixSuffix(node, remaining, FALSE)
                      ELSE matchMultipleSegments(node, remaining, FALSE)
              [] node.modifier = Modifier.OneOrMore ->
                    IF node.prefix /= <<>> /\ node.prefix /= <<"/">>
                      THEN matchOneOrMoreWithPrefix(node, remaining)
                      ELSE matchMultipleSegments(node, remaining, TRUE)
              [] node.modifier = Modifier.Optional ->
                    matchOptionalSegment(node, remaining)
        zeroFirst == node.modifier \in {Modifier.ZeroOrMore, Modifier.Optional}
    IN IF node.modifier = Modifier.ZeroOrMore /\ hasChildren
         THEN IF zeroMatch /= <<>> THEN zeroMatch
              ELSE firstMatch(tree, n, urlComponents, componentIndex,
                              segmentPositions(remaining, position), fullUrl)
       ELSE IF node.modifier = Modifier.OneOrMore /\ hasChildren
         THEN firstMatch(tree, n, urlComponents, componentIndex,
                         segmentPositions(remaining, position), fullUrl)
       ELSE IF node.modifier = Modifier.None /\ hasChildren
         THEN IF node.prefix /= <<>> \/ node.suffix /= <<>>
                THEN IF ~startsWith(remaining, node.prefix, 0) THEN <<>>
                     ELSE IF Len(afterPrefix) = 0 THEN <<>>
                     ELSE firstMatch(tree, n, urlComponents, componentIndex,
                              [contentLength \in 1..Len(afterPrefix) |->
                                  position + Len(node.prefix) + contentLength],
                              fullUrl)
                ELSE IF Len(remaining) = 0 THEN <<>>
                     ELSE firstMatch(tree, n, urlComponents, componentIndex,
                              [contentLength \in 1..Len(remaining) |->
                                  position + contentLength],
                              fullUrl)
       ELSE IF zeroFirst /\ zeroMatch /= <<>> THEN zeroMatch
       ELSE IF consumedChars > 0
         THEN tryPatternsAndChildren(tree, n, urlComponents, componentIndex,
                                     position + consumedChars, fullUrl)
       ELSE IF node.modifier = Modifier.OneOrMore /\ consumedChars = 0
         THEN zeroMatch
         ELSE <<>>

FullWildcardMatch(tree, n, urlComponents, componentIndex, position, fullUrl) ==
    LET node == tree[n]
        value == urlComponents[componentIndex + 1].value
        zeroMatch == tryPatternsAndChildren(tree, n, urlComponents, componentIndex,
                                            position, fullUrl)
        zeroFirst == node.modifier \in
                        {Modifier.ZeroOrMore, Modifier.Optional, Modifier.OneOrMore}
    IN IF zeroFirst /\ zeroMatch /= <<>> THEN zeroMatch
       ELSE IF Len(node.children) = 0
         THEN IF Len(value) > position
                THEN tryPatternsAndChildren(tree, n, urlComponents, componentIndex,
                                            Len(value), fullUrl)
                ELSE <<>>
         ELSE firstMatch(tree, n, urlComponents, componentIndex,
                  [j \in 1..(Len(value) - position + 1) |-> Len(value) - j + 1],
                  fullUrl)

RegexMatch(tree, n, urlComponents, componentIndex, position, fullUrl) ==
    LET node == tree[n]
        value == urlComponents[componentIndex + 1].value
        slashFirst == startsWith(value, <<"/">>, position)
        from == IF node.urlComponentType = URLComponentType.Pathname /\ slashFirst
                  THEN position + 1 ELSE position
        nextSlashIndex == indexOf(value, "/", from)
        segmentToTest ==
            IF node.urlComponentType = URLComponentType.Pathname
              THEN slice2(value, from, toUint32(nextSlashIndex, Len(value)))
              ELSE slice(value, position)
        consumedChars == (from - position) + Len(segmentToTest)
    IN IF position >= Len(value) THEN <<>>
       ELSE IF Len(segmentToTest) = 0 THEN <<>>
       ELSE IF testRegexPattern(node, segmentToTest)
         THEN tryPatternsAndChildren(tree, n, urlComponents, componentIndex,
                                     position + consumedChars, fullUrl)
         ELSE <<>>

match(tree, n, urlComponents, componentIndex, position, fullUrl) ==
    IF tree[n].kind = "Root"
      THEN tryPatternsAndChildren(tree, n, urlComponents, componentIndex,
                                  position, fullUrl)
    ELSE IF urlComponents[componentIndex + 1].type /= tree[n].urlComponentType
      THEN <<>>
    ELSE CASE tree[n].kind = "Fixed" ->
                FixedMatch(tree, n, urlComponents, componentIndex, position, fullUrl)
           [] tree[n].kind = "Wildcard" ->
                WildcardMatch(tree, n, urlComponents, componentIndex, position, fullUrl)
           [] tree[n].kind = "FullWildcard" ->
                FullWildcardMatch(tree, n, urlComponents, componentIndex, position,
                                  fullUrl)
           [] tree[n].kind = "Regex" ->
                RegexMatch(tree, n, urlComponents, componentIndex, position, fullUrl)

\* The positions at which a node's match calls tryPatternsAndChildren, in the
\* order of the calls, when no call returns a match: one per zero-consumption
\* attempt, per iteration of a backtracking loop and per final call.
triedPositions(tree, n, urlComponents, componentIndex, position) ==
    LET node == tree[n]
        value == urlComponents[componentIndex + 1].value
        remaining == slice(value, position)
        hasChildren == Len(node.children) > 0
        matchCount == fixedRepetitions(value, node.value, position)
        afterPrefix == slice(remaining, Len(node.prefix))
        consumedChars ==
            CASE node.modifier = Modifier.None -> matchSingleSegment(node, remaining)
              [] node.modifier = Modifier.ZeroOrMore ->
                    IF node.prefix /= <<>> /\ node.prefix /= <<"/">>
                      THEN matchWithPrefixSuffix(node, remaining, FALSE)
                      ELSE matchMultipleSegments(node, remaining, FALSE)
              [] node.modifier = Modifier.OneOrMore ->
                    IF node.prefix /= <<>> /\ node.prefix /= <<"/">>
                      THEN matchOneOrMoreWithPrefix(node, remaining)
                      ELSE matchMultipleSegments(node, remaining, TRUE)
              [] node.modifier = Modifier.Optional ->
                    matchOptionalSegment(node, remaining)
        slashFirst == startsWith(value, <<"/">>, position)
        from == IF node.urlComponentType = URLComponentType.Pathname /\ slashFirst
                  THEN position + 1 ELSE position
        segmentToTest ==
            IF node.urlComponentType = URLComponentType.Pathname
              THEN slice2(value, from, toUint32(indexOf(value, "/", from), Len(value)))
              ELSE slice(value, position)
    IN IF node.kind = "Root" THEN <<position>>
       ELSE IF urlComponents[componentIndex + 1].type /= node.urlComponentType THEN <<>>
       ELSE CASE node.kind = "Fixed" ->
                IF node.modifier \in {Modifier.OneOrMore, Modifier.ZeroOrMore}
                  THEN IF matchCount >= (IF node.modifier = Modifier.OneOrMore
                                           THEN 1 ELSE 0)
                         THEN <<position + matchCount * Len(node.value)>>
                         ELSE <<>>
                ELSE IF startsWith(value, node.value, position)
                  THEN <<position + Len(node.value)>>
                ELSE IF node.modifier = Modifier.Optional THEN <<position>>
                ELSE <<>>
           [] node.kind = "Wildcard" ->
                IF node.modifier = Modifier.ZeroOrMore /\ hasChildren
                  THEN <<position>> \o segmentPositions(remaining, position)
                ELSE IF node.modifier = Modifier.OneOrMore /\ hasChildren
                  THEN segmentPositions(remaining, position)
                ELSE IF node.modifier = Modifier.None /\ hasChildren
                  THEN IF node.prefix /= <<>> \/ node.suffix /= <<>>
                         THEN IF ~startsWith(remaining, node.prefix, 0) THEN <<>>
                              ELSE [contentLength \in 1..Len(afterPrefix) |->
                                       position + Len(node.prefix) + contentLength]
                         ELSE [contentLength \in 1..Len(remaining) |->
                                  position + contentLength]
                ELSE (IF node.modifier \in {Modifier.ZeroOrMore, Modifier.Optional}
                        THEN <<position>> ELSE <<>>)
                     \o (IF consumedChars > 0 THEN <<position + consumedChars>>
                         ELSE IF node.modifier = Modifier.OneOrMore /\ consumedChars = 0
                           THEN <<position>>
                           ELSE <<>>)
           [] node.kind = "FullWildcard" ->
                (IF node.modifier /= Modifier.None THEN <<position>> ELSE <<>>)
                \o (IF ~hasChildren
                      THEN IF Len(value) > position THEN <<Len(value)>> ELSE <<>>
                      ELSE [j \in 1..(Len(value) - position + 1) |->
                               Len(value) - j + 1])
           [] node.kind = "Regex" ->
                IF position >= Len(value) \/ Len(segmentToTest) = 0 THEN <<>>
                ELSE IF testRegexPattern(node, segmentToTest)
                  THEN <<position + (from - position) + Len(segmentToTest)>>
                  ELSE <<>>

\* The components of URLPatternList.match: the non-empty ones, in order.
RECURSIVE componentsFrom(_, _)
componentsFrom(url, c) ==
    IF c > 7 THEN <<>>
    ELSE (IF url[ComponentNames[c + 1]] /= <<>>
            THEN <<[value |-> componentText(url, c), type |-> c]>>
            ELSE <<>>) \o componentsFrom(url, c + 1)

\* A variant that hands the evaluator the URL without its search.
listMatchWithoutSearch(tree, url) ==
    LET m == match(tree, 1, componentsFrom(url, 0), 0, 0, url)
        stripped == [url EXCEPT !.search = <<>>]
    IN IF m /= <<>> /\ exec(m[1].pattern, stripped) /= <<>>
         THEN <<[result |-> exec(m[1].pattern, stripped)[1], value |-> m[1].value]>>
         ELSE <<>>

\* URLPatternList.match on a resolved URL: null or {result, value}.
listMatch(tree, url) ==
    LET m == match(tree, 1, componentsFrom(url, 0), 0, 0, url)
    IN IF m /= <<>> /\ exec(m[1].pattern, url) /= <<>>
         THEN <<[result |-> exec(m[1].pattern, url)[1], value |-> m[1].value]>>
         ELSE <<>>

(***************************************************************************)
(* The public operations.                                                  *)
(***************************************************************************)
\* A variant that takes the sequence number before it parses.
addPatternCountsFirst(tree, counter, pattern, value) ==
    IF parseThrows(pattern)
      THEN [nodes |-> tree, sequenceCounter |-> counter + 1, threw |-> TRUE]
      ELSE LET parts == parseFullURL(pattern)
               item == [sequence |-> counter, pattern |-> pattern, value |-> value]
           IN [nodes |-> addPatternToTree(tree, 1, parts, 0, item),
               sequenceCounter |-> counter + 1,
               threw |-> FALSE]

\* A variant that reads the counter without advancing it.
addPatternKeepsCounter(tree, counter, pattern, value) ==
    IF parseThrows(pattern)
      THEN [nodes |-> tree, sequenceCounter |-> counter, threw |-> TRUE]
      ELSE LET parts == parseFullURL(pattern)
               item == [sequence |-> counter, pattern |-> pattern, value |-> value]
           IN [nodes |-> addPatternToTree(tree, 1, parts, 0, item),
               sequenceCounter |-> counter,
               threw |-> FALSE]

\* URLPatternList.addPattern: the state after the call, and whether it threw.
addPattern(tree, counter, pattern, value) ==
    IF parseThrows(pattern)
      THEN [nodes |-> tree, sequenceCounter |-> counter, threw |-> TRUE]
      ELSE LET parts == parseFullURL(pattern)
               item == [sequence |-> counter, pattern |-> pattern, value |-> value]
           IN [nodes |-> addPatternToTree(tree, 1, parts, 0, item),
               sequenceCounter |-> counter + 1,
               threw |-> FALSE]

\* NaiveURLPatternList.addPattern
naiveAddPattern(patterns, pattern, value) ==
    Append(patterns, [sequence |-> 0, pattern |-> pattern, value |-> value])

\* URLPatternList.match: what the call returns, or that it threw.
URLPatternListMatch(tree, input) ==
    IF newURLThrows(input)
      THEN [threw |-> TRUE, value |-> <<>>]
      ELSE [threw |-> FALSE, value |-> listMatch(tree, newURL(input))]

Init ==
    /\ nodes = <<RootPrefixTreeNode>>
    /\ sequenceCounter = 0
    /\ naive = <<>>
    /\ call = [op |-> "new"]
    /\ ret = [threw |-> FALSE, value |-> <<>>]
    /\ stack = <<>>
    /\ returned = <<>>

\* Both lists are given the same pattern; the reference keeps it when the
\* registration succeeds.  A call starts when no other call is running.
AddPatternFrom(pool, values) ==
    /\ stack = <<>>
    /\ sequenceCounter < MaxPatterns
    /\ \E pattern \in pool, value \in values :
          LET r == addPattern(nodes, sequenceCounter, pattern, value)
          IN /\ nodes' = r.nodes
             /\ sequenceCounter' = r.sequenceCounter
             /\ naive' = IF r.threw THEN naive
                         ELSE naiveAddPattern(naive, pattern, value)
             /\ call' = [op |-> "addPattern", pattern |-> pattern, value |-> value]
             /\ ret' = [threw |-> r.threw, value |-> <<>>]
    /\ UNCHANGED <<stack, returned>>

AddPattern == AddPatternFrom(PatternPool, Payloads)

Match ==
    /\ stack = <<>>
    /\ \E input \in MatchInputs :
          /\ call' = [op |-> "match", input |-> input]
          /\ ret' = URLPatternListMatch(nodes, input)
    /\ UNCHANGED <<nodes, sequenceCounter, naive, stack, returned>>

Next == AddPattern \/ Match

Spec == Init /\ [][Next]_vars

(***************************************************************************)
(* The match call step by step.  A frame is one activation of              *)
(* URLPatternList.match, of a node's match or of tryPatternsAndChildren:   *)
(* pc is the place the activation has reached, i and aux are its loop      *)
(* variables and best is bestMatch.  A call pushes a frame, a return pops  *)
(* it and leaves the returned value for the caller.                        *)
(***************************************************************************)
\* Patterns whose nodes run every consumption loop of the matcher.
LoopPatternPool ==
    { URLPattern(Source(<<Fx(<<"/", "a">>),
                          FxMod(<<"a">>, Modifier.ZeroOrMore)>>), Star),    \* /a{a}*
      URLPattern(Source(<<Seg("x", <<"/">>, Modifier.ZeroOrMore),
                          Fx(<<"/", "a">>)>>), Star),                       \* /:x*/a
      URLPattern(Source(<<Seg("x", <<"/">>, Modifier.OneOrMore),
                          Fx(<<"/", "a">>)>>), Star),                       \* /:x+/a
      URLPattern(Source(<<Seg("x", <<"/">>, Modifier.None),
                          Fx(<<"/", "a">>)>>), Star),                       \* /:x/a
      URLPattern(Source(<<Seg("x", <<"/">>, Modifier.Optional)>>), Star),   \* /:x?
      URLPattern(Source(<<Fx(<<"/", "a">>),
                          Seg("x", <<"-">>, Modifier.OneOrMore)>>), Star),  \* /a{-:x}+
      URLPattern(Source(<<Full(<<"/">>, Modifier.None),
                          Full(<<"/">>, Modifier.None)>>), Star),           \* /*/*
      URLPattern(Source(<<Full(<<"/">>, Modifier.Optional),
                          Fx(<<"/", "a">>)>>), Star),                       \* /*?/a
      URLPattern(Source(<<Rx("x", <<"/">>, <<"a">>, Modifier.None)>>), Star) } \* /:x(a)

LoopInputs ==
    {[form |-> "relative", baseUrl |-> TRUE,
      target |-> [protocol |-> <<"h", ":">>, username |-> <<>>,
                  password |-> <<>>, hostname |-> <<"e">>, port |-> <<>>,
                  pathname |-> pathname, search |-> <<>>, hash |-> <<>>]] :
        pathname \in UNION {PathsOfLen({"/", "a", "-"}, n) : n \in 1..MaxPathLen}}
    \cup {input \in MatchInputs : input.form = "invalid" /\ ~input.baseUrl}

Frame(fn, n, componentIndex, position, pc, i) ==
    [fn |-> fn, n |-> n, componentIndex |-> componentIndex,
     position |-> position, pc |-> pc, i |-> i, aux |-> 0, best |-> <<>>]

\* An activation of this.tryPatternsAndChildren on node n.
TryFrame(n, componentIndex, position) ==
    Frame("tryPatternsAndChildren", n, componentIndex, position, "children", 1)

\* An activation of node n's match.
MatchFrame(n, componentIndex, position) ==
    Frame("match", n, componentIndex, position, "enter", 0)

top == stack[Len(stack)]

\* The arguments every activation of one match call shares.
fullUrl == newURL(call.input)

urlComponents == componentsFrom(fullUrl, 0)

componentValue(frame) == urlComponents[frame.componentIndex + 1].value

remainingOf(frame) == slice(componentValue(frame), frame.position)

\* The caller moves to the frame given and the callee starts.
Call(caller, callee) ==
    /\ stack' = Append([stack EXCEPT ![Len(stack)] = caller], callee)
    /\ returned' = <<>>
    /\ UNCHANGED <<nodes, sequenceCounter, naive, call, ret>>

\* The activation on top moves on without a call.
Goto(frame) ==
    /\ stack' = [stack EXCEPT ![Len(stack)] = frame]
    /\ returned' = <<>>
    /\ UNCHANGED <<nodes, sequenceCounter, naive, call, ret>>

Return(result) ==
    /\ stack' = SubSeq(stack, 1, Len(stack) - 1)
    /\ returned' = result
    /\ UNCHANGED <<nodes, sequenceCounter, naive, call, ret>>

\* return this.tryPatternsAndChildren(...)
TailCall(frame, position) ==
    Call([frame EXCEPT !.pc = "tail"],
         TryFrame(frame.n, frame.componentIndex, position))

At(fn, kind, pc) ==
    /\ stack /= <<>>
    /\ top.fn = fn
    /\ nodes[top.n].kind \in kind
    /\ top.pc = pc

NodeKinds == {"Root", "Fixed", "Wildcard", "FullWildcard", "Regex"}

typeMismatch(frame) ==
    urlComponents[frame.componentIndex + 1].type /= nodes[frame.n].urlComponentType

AddLoopPattern == AddPatternFrom(LoopPatternPool, {"v1"})

\* URLPatternList.match up to the call of this.#root.match.
MatchBegin ==
    /\ stack = <<>>
    /\ \E input \in LoopInputs :
          /\ call' = [op |-> "match", input |-> input]
          /\ IF newURLThrows(input)
               THEN /\ ret' = [threw |-> TRUE, value |-> <<>>]
                    /\ stack' = <<>>
               ELSE /\ ret' = [threw |-> FALSE, value |-> <<>>]
                    /\ stack' = <<Frame("URLPatternList.match", 1, 0, 0, "walk", 0),
                                  MatchFrame(1, 0, 0)>>
    /\ returned' = <<>>
    /\ UNCHANGED <<nodes, sequenceCounter, naive>>

\* URLPatternList.match from the return of this.#root.match on.
MatchEnd ==
    /\ stack /= <<>>
    /\ top.fn = "URLPatternList.match"
    /\ ret' = [threw |-> FALSE,
               value |-> IF returned /= <<>> /\ exec(returned[1].pattern, fullUrl) /= <<>>
                           THEN <<[result |-> exec(returned[1].pattern, fullUrl)[1],
                                   value |-> returned[1].value]>>
                           ELSE <<>>]
    /\ stack' = <<>>
    /\ returned' = <<>>
    /\ UNCHANGED <<nodes, sequenceCounter, naive, call>>

\* The advance of tryPatternsAndChildren once the component is consumed.
advanced(frame) ==
    LET consumed == frame.position >= Len(componentValue(frame))
        type == urlComponents[frame.componentIndex + 1].type
        hasChildrenWithSameComponent ==
            \E k \in 1..Len(nodes[frame.n].children) :
                nodes[nodes[frame.n].children[k]].urlComponentType = type
    IN IF consumed /\ ~hasChildrenWithSameComponent
         THEN [componentIndex |-> frame.componentIndex + 1, position |-> 0]
         ELSE [componentIndex |-> frame.componentIndex, position |-> frame.position]

\* One iteration of the loop over this.children.
TryChild ==
    /\ At("tryPatternsAndChildren", NodeKinds, "children")
    /\ top.i <= Len(nodes[top.n].children)
    /\ LET childNode == nodes[top.n].children[top.i]
           childType == nodes[childNode].urlComponentType
           newComponentIndex ==
               skipComponents(urlComponents, advanced(top).componentIndex, childType)
           newPosition ==
               IF newComponentIndex > advanced(top).componentIndex
                 THEN 0 ELSE advanced(top).position
       IN IF /\ top.best /= <<>>
             /\ nodes[childNode].minSequence > top.best[1].sequence
            THEN Goto([top EXCEPT !.i = @ + 1])
          ELSE IF \/ newComponentIndex = Len(urlComponents)
                  \/ urlComponents[newComponentIndex + 1].type > childType
            THEN Goto([top EXCEPT !.i = @ + 1])
            ELSE Call([top EXCEPT !.pc = "childReturn"],
                      MatchFrame(childNode, newComponentIndex, newPosition))

\* A variant that remembers what a subtree returned: it writes the sequence
\* of the child's match into the node's minSequence.
ChildReturnCachingMin ==
    /\ At("tryPatternsAndChildren", NodeKinds, "childReturn")
    /\ stack' = [stack EXCEPT ![Len(stack)] =
                    IF /\ returned /= <<>>
                       /\ (top.best = <<>> \/ returned[1].sequence < top.best[1].sequence)
                      THEN [top EXCEPT !.pc = "children", !.i = @ + 1, !.best = returned]
                      ELSE [top EXCEPT !.pc = "children", !.i = @ + 1]]
    /\ nodes' = IF returned /= <<>>
                  THEN [nodes EXCEPT ![top.n].minSequence = returned[1].sequence]
                  ELSE nodes
    /\ returned' = <<>>
    /\ UNCHANGED <<sequenceCounter, naive, call, ret>>

\* The child returned: keep its match when it is the better one.
ChildReturn ==
    /\ At("tryPatternsAndChildren", NodeKinds, "childReturn")
    /\ IF /\ returned /= <<>>
          /\ (top.best = <<>> \/ returned[1].sequence < top.best[1].sequence)
         THEN Goto([top EXCEPT !.pc = "children", !.i = @ + 1, !.best = returned])
         ELSE Goto([top EXCEPT !.pc = "children", !.i = @ + 1])

\* After the children: on to this.patterns, or return.
ChildrenDone ==
    /\ At("tryPatternsAndChildren", NodeKinds, "children")
    /\ top.i > Len(nodes[top.n].children)
    /\ LET isLastComponent == advanced(top).componentIndex >= Len(urlComponents)
       IN IF /\ top.position >= Len(componentValue(top))
             /\ (isLastComponent \/ top.best = <<>>)
            THEN Goto([top EXCEPT !.pc = "patterns", !.i = 1])
            ELSE Return(top.best)

\* One iteration of the loop over this.patterns.
TryPattern ==
    /\ At("tryPatternsAndChildren", NodeKinds, "patterns")
    /\ top.i <= Len(nodes[top.n].patterns)
    /\ LET item == nodes[top.n].patterns[top.i]
       IN IF top.best /= <<>> /\ item.sequence > top.best[1].sequence
            THEN Goto([top EXCEPT !.i = @ + 1])
          ELSE IF /\ test(item.pattern, fullUrl)
                  /\ (top.best = <<>> \/ item.sequence < top.best[1].sequence)
            THEN Goto([top EXCEPT !.i = @ + 1, !.best = <<item>>])
            ELSE Goto([top EXCEPT !.i = @ + 1])

PatternsDone ==
    /\ At("tryPatternsAndChildren", NodeKinds, "patterns")
    /\ top.i > Len(nodes[top.n].patterns)
    /\ Return(top.best)

\* A match that ends in return this.tryPatternsAndChildren(...) hands the
\* value on.
PassResult ==
    /\ At("match", NodeKinds, "tail")
    /\ Return(returned)

RootEnter ==
    /\ At("match", {"Root"}, "enter")
    /\ TailCall(top, top.position)

FixedEnter ==
    /\ At("match", {"Fixed"}, "enter")
    /\ LET expectedText == nodes[top.n].value
       IN IF typeMismatch(top) THEN Return(<<>>)
          ELSE IF nodes[top.n].modifier \in {Modifier.OneOrMore, Modifier.ZeroOrMore}
            THEN Goto([top EXCEPT !.pc = "repeat", !.i = top.position, !.aux = 0])
          ELSE IF startsWith(componentValue(top), expectedText, top.position)
            THEN TailCall(top, top.position + Len(expectedText))
          ELSE IF nodes[top.n].modifier = Modifier.Optional
            THEN TailCall(top, top.position)
            ELSE Return(<<>>)

\* The repetition loop: i is currentIndex, aux is matchCount.
FixedRepeat ==
    /\ At("match", {"Fixed"}, "repeat")
    /\ LET expectedText == nodes[top.n].value
           minimumMatches ==
               IF nodes[top.n].modifier = Modifier.OneOrMore THEN 1 ELSE 0
       IN IF startsWith(componentValue(top), expectedText, top.i)
            THEN Goto([top EXCEPT !.i = @ + Len(expectedText), !.aux = @ + 1])
          ELSE IF top.aux >= minimumMatches
            THEN TailCall(top, top.position + top.aux * Len(expectedText))
            ELSE Return(<<>>)

\* The segments the segment loops count.
segmentsOf(frame) == Tail(split(remainingOf(frame)))

hasSegments(frame) ==
    Len(remainingOf(frame)) > 0 /\ startsWith(remainingOf(frame), <<"/">>, 0)

customPrefix(node) == node.prefix /= <<>> /\ node.prefix /= <<"/">>

WildcardEnter ==
    /\ At("match", {"Wildcard"}, "enter")
    /\ LET node == nodes[top.n]
           remaining == remainingOf(top)
           hasChildren == Len(node.children) > 0
           consumedChars ==
               CASE node.modifier = Modifier.None -> matchSingleSegment(node, remaining)
                 [] node.modifier = Modifier.ZeroOrMore ->
                       IF customPrefix(node)
                         THEN matchWithPrefixSuffix(node, remaining, FALSE)
                         ELSE matchMultipleSegments(node, remaining, FALSE)
                 [] node.modifier = Modifier.OneOrMore ->
                       matchMultipleSegments(node, remaining, TRUE)
                 [] node.modifier = Modifier.Optional ->
                       matchOptionalSegment(node, remaining)
       IN IF typeMismatch(top) THEN Return(<<>>)
          ELSE IF node.modifier = Modifier.ZeroOrMore /\ hasChildren
            THEN Call([top EXCEPT !.pc = "zeroReturn"],
                      TryFrame(top.n, top.componentIndex, top.position))
          ELSE IF node.modifier = Modifier.OneOrMore /\ hasChildren
            THEN IF hasSegments(top)
                   THEN Goto([top EXCEPT !.pc = "segments", !.i = 1])
                   ELSE Return(<<>>)
          ELSE IF node.modifier = Modifier.None /\ hasChildren
            THEN IF node.prefix /= <<>> \/ node.suffix /= <<>>
                   THEN IF ~startsWith(remaining, node.prefix, 0) THEN Return(<<>>)
                        ELSE IF Len(slice(remaining, Len(node.prefix))) = 0
                          THEN Return(<<>>)
                          ELSE Goto([top EXCEPT !.pc = "content", !.i = 1,
                                                !.aux = Len(node.prefix)])
                   ELSE IF Len(remaining) = 0 THEN Return(<<>>)
                        ELSE Goto([top EXCEPT !.pc = "content", !.i = 1, !.aux = 0])
          ELSE IF node.modifier = Modifier.OneOrMore /\ customPrefix(node)
            THEN IF ~startsWith(remaining, node.prefix, 0)
                   THEN Goto([top EXCEPT !.pc = "consume", !.aux = -1])
                   ELSE Goto([top EXCEPT !.pc = "prefixLoop", !.i = 0])
          ELSE IF node.modifier \in {Modifier.ZeroOrMore, Modifier.Optional}
            THEN Call([top EXCEPT !.pc = "zeroFirstReturn", !.aux = consumedChars],
                      TryFrame(top.n, top.componentIndex, top.position))
            ELSE Goto([top EXCEPT !.pc = "consume", !.aux = consumedChars])

\* ZeroOrMore with children: after the zero-consumption attempt.
WildcardZeroReturn ==
    /\ At("match", {"Wildcard"}, "zeroReturn")
    /\ IF returned /= <<>> THEN Return(returned)
       ELSE IF hasSegments(top) THEN Goto([top EXCEPT !.pc = "segments", !.i = 1])
       ELSE Return(<<>>)

\* The segment loop: i is segmentCount.
WildcardSegment ==
    /\ At("match", {"Wildcard"}, "segments")
    /\ IF top.i <= Len(segmentsOf(top))
         THEN Call([top EXCEPT !.pc = "segmentReturn"],
                   TryFrame(top.n, top.componentIndex,
                            top.position + 1 + segmentsLength(segmentsOf(top), top.i)))
         ELSE Return(<<>>)

WildcardSegmentReturn ==
    /\ At("match", {"Wildcard"}, "segmentReturn")
    /\ IF returned /= <<>> THEN Return(returned)
       ELSE Goto([top EXCEPT !.pc = "segments", !.i = @ + 1])

\* The length loop: i is contentLength, aux is this.prefix.length.
WildcardContent ==
    /\ At("match", {"Wildcard"}, "content")
    /\ IF top.i <= Len(remainingOf(top)) - top.aux
         THEN Call([top EXCEPT !.pc = "contentReturn"],
                   TryFrame(top.n, top.componentIndex,
                            top.position + top.aux + top.i))
         ELSE Return(<<>>)

WildcardContentReturn ==
    /\ At("match", {"Wildcard"}, "contentReturn")
    /\ IF returned /= <<>> THEN Return(returned)
       ELSE Goto([top EXCEPT !.pc = "content", !.i = @ + 1])

\* The while loop of #matchOneOrMoreWithPrefix: i is totalConsumed, and
\* currentRemaining is remaining without its first totalConsumed characters.
WildcardPrefixLoop ==
    /\ At("match", {"Wildcard"}, "prefixLoop")
    /\ LET node == nodes[top.n]
           currentRemaining == slice(remainingOf(top), top.i)
           afterPrefix == slice(currentRemaining, Len(node.prefix))
           contentLength ==
               IF node.urlComponentType = URLComponentType.Pathname
                 THEN untilSlash(afterPrefix, 0)
                 ELSE Len(afterPrefix)
           segmentLength == Len(node.prefix) + contentLength
           totalConsumed ==
               IF ~startsWith(currentRemaining, node.prefix, 0) THEN top.i
               ELSE IF Len(afterPrefix) = 0 THEN top.i + Len(node.prefix)
               ELSE IF contentLength > 0 THEN top.i + segmentLength
               ELSE top.i
       IN IF /\ startsWith(currentRemaining, node.prefix, 0)
             /\ Len(afterPrefix) > 0
             /\ contentLength > 0
             /\ node.urlComponentType = URLComponentType.Pathname
            THEN Goto([top EXCEPT !.i = totalConsumed])
            ELSE Goto([top EXCEPT !.pc = "consume",
                                  !.aux = IF totalConsumed > 0
                                            THEN totalConsumed ELSE -1])

\* Optional, and ZeroOrMore without children: after the zero-consumption
\* attempt.
WildcardZeroFirstReturn ==
    /\ At("match", {"Wildcard"}, "zeroFirstReturn")
    /\ IF returned /= <<>> THEN Return(returned)
       ELSE Goto([top EXCEPT !.pc = "consume"])

\* aux is consumedChars.
WildcardConsume ==
    /\ At("match", {"Wildcard"}, "consume")
    /\ IF top.aux > 0 THEN TailCall(top, top.position + top.aux)
       ELSE IF nodes[top.n].modifier = Modifier.OneOrMore /\ top.aux = 0
         THEN TailCall(top, top.position)
         ELSE Return(<<>>)

FullWildcardEnter ==
    /\ At("match", {"FullWildcard"}, "enter")
    /\ IF typeMismatch(top) THEN Return(<<>>)
       ELSE IF nodes[top.n].modifier \in
                 {Modifier.ZeroOrMore, Modifier.Optional, Modifier.OneOrMore}
         THEN Call([top EXCEPT !.pc = "fullZeroReturn"],
                   TryFrame(top.n, top.componentIndex, top.position))
         ELSE Goto([top EXCEPT !.pc = "fullConsume"])

FullWildcardZeroReturn ==
    /\ At("match", {"FullWildcard"}, "fullZeroReturn")
    /\ IF returned /= <<>> THEN Return(returned)
       ELSE Goto([top EXCEPT !.pc = "fullConsume"])

FullWildcardConsume ==
    /\ At("match", {"FullWildcard"}, "fullConsume")
    /\ IF Len(nodes[top.n].children) = 0
         THEN IF Len(componentValue(top)) > top.position
                THEN TailCall(top, Len(componentValue(top)))
                ELSE Return(<<>>)
         ELSE Goto([top EXCEPT !.pc = "shrink",
                               !.i = Len(componentValue(top)) - top.position])

\* The shrink loop: i is consumeLength.
FullWildcardShrink ==
    /\ At("match", {"FullWildcard"}, "shrink")
    /\ IF top.i >= 0
         THEN Call([top EXCEPT !.pc = "shrinkReturn"],
                   TryFrame(top.n, top.componentIndex, top.position + top.i))
         ELSE Return(<<>>)

\* A variant of the shrink loop that never shortens what it consumes.
FullWildcardShrinkReturnSameLength ==
    /\ At("match", {"FullWildcard"}, "shrinkReturn")
    /\ IF returned /= <<>> THEN Return(returned)
       ELSE Goto([top EXCEPT !.pc = "shrink"])

FullWildcardShrinkReturn ==
    /\ At("match", {"FullWildcard"}, "shrinkReturn")
    /\ IF returned /= <<>> THEN Return(returned)
       ELSE Goto([top EXCEPT !.pc = "shrink", !.i = @ - 1])

RegexEnter ==
    /\ At("match", {"Regex"}, "enter")
    /\ LET node == nodes[top.n]
           value == componentValue(top)
           slashFirst == startsWith(value, <<"/">>, top.position)
           from == IF node.urlComponentType = URLComponentType.Pathname /\ slashFirst
                     THEN top.position + 1 ELSE top.position
           nextSlashIndex == indexOf(value, "/", from)
           segmentToTest ==
               IF node.urlComponentType = URLComponentType.Pathname
                 THEN slice2(value, from, toUint32(nextSlashIndex, Len(value)))
                 ELSE slice(value, top.position)
           consumedChars == (from - top.position) + Len(segmentToTest)
       IN IF typeMismatch(top) THEN Return(<<>>)
          ELSE IF top.position >= Len(value) THEN Return(<<>>)
          ELSE IF Len(segmentToTest) = 0 THEN Return(<<>>)
          ELSE IF testRegexPattern(node, segmentToTest)
            THEN TailCall(top, top.position + consumedChars)
            ELSE Return(<<>>)

\* The steps of a match call in progress.
MatchStep ==
    \/ TryChild \/ ChildReturn \/ ChildrenDone \/ TryPattern \/ PatternsDone
    \/ PassResult \/ RootEnter
    \/ FixedEnter \/ FixedRepeat
    \/ WildcardEnter \/ WildcardZeroReturn \/ WildcardSegment
    \/ WildcardSegmentReturn \/ WildcardContent \/ WildcardContentReturn
    \/ WildcardPrefixLoop \/ WildcardZeroFirstReturn \/ WildcardConsume
    \/ FullWildcardEnter \/ FullWildcardZeroReturn \/ FullWildcardConsume
    \/ FullWildcardShrink \/ FullWildcardShrinkReturn
    \/ RegexEnter
    \/ MatchEnd

NextStepwise == AddLoopPattern \/ MatchBegin \/ MatchStep

\* match is synchronous: once called it runs until it returns.
SpecStepwise == Init /\ [][NextStepwise]_vars /\ WF_vars(MatchStep)

\* The stepwise match returns what the match operator computes.
StepwiseAgrees ==
    call.op = "match" /\ stack = <<>> => ret = URLPatternListMatch(nodes, call.input)

(***************************************************************************)
(* A third index for the rules of the walk: three registrations, taken     *)
(* from patterns that share nodes, end on inner nodes, continue in the     *)
(* search component and let a wildcard stop at more than one length.       *)
(***************************************************************************)
MaxWalkPatterns == 3  \* addPattern calls
MaxWalkPathLen == 3   \* characters in a URL pathname

WalkPatternPool ==
    { URLPattern(Source(<<Full(<<"/">>, Modifier.None), Fx(<<"a", "a">>)>>), Star), \* /*aa
      URLPattern(Source(<<Full(<<"/">>, Modifier.None), Fx(<<"a">>)>>), Star),     \* /*a
      URLPattern(Source(<<Fx(<<"/", "a">>)>>), Star),                              \* /a
      URLPattern(Source(<<Fx(<<"/", "a">>)>>), Source(<<Fx(<<"a">>)>>)),           \* /a ?a
      URLPattern(Source(<<Fx(<<"/", "a">>),
                          FxMod(<<"a">>, Modifier.ZeroOrMore)>>), Star),           \* /a{a}*
      URLPattern(Source(<<Seg("x", <<"/">>, Modifier.Optional)>>), Star),          \* /:x?
      URLPattern(Source(<<Seg("x", <<"/">>, Modifier.OneOrMore)>>), Star) }        \* /:x+

WalkInputs ==
    {[form |-> "relative", baseUrl |-> TRUE,
      target |-> [protocol |-> <<"h", ":">>, username |-> <<>>,
                  password |-> <<>>, hostname |-> <<"e">>, port |-> <<>>,
                  pathname |-> pathname, search |-> search, hash |-> <<>>]] :
        pathname \in UNION {PathsOfLen({"/", "a"}, n) : n \in 1..MaxWalkPathLen},
        search \in {<<>>, <<"?", "a">>}}

AddWalkPattern ==
    /\ sequenceCounter < MaxWalkPatterns
    /\ \E pattern \in WalkPatternPool :
          LET r == addPattern(nodes, sequenceCounter, pattern, "v1")
          IN /\ nodes' = r.nodes
             /\ sequenceCounter' = r.sequenceCounter
             /\ naive' = IF r.threw THEN naive
                         ELSE naiveAddPattern(naive, pattern, "v1")
             /\ call' = [op |-> "addPattern", pattern |-> pattern, value |-> "v1"]
             /\ ret' = [threw |-> r.threw, value |-> <<>>]
    /\ UNCHANGED <<stack, returned>>

WalkMatch ==
    /\ \E input \in WalkInputs :
          /\ call' = [op |-> "match", input |-> input]
          /\ ret' = URLPatternListMatch(nodes, input)
    /\ UNCHANGED <<nodes, sequenceCounter, naive, stack, returned>>

NextWalk == AddWalkPattern \/ WalkMatch

SpecWalk == Init /\ [][NextWalk]_vars

(***************************************************************************)
(* The node kinds and their modifiers: patterns that differ in one field   *)
(* of a part, full wildcards of every modifier, regex parts with a source  *)
(* that does and does not compile, in the pathname and in the search.      *)
(***************************************************************************)
KindPatternPool ==
    { URLPattern(Source(<<Fx(<<"/", "a">>), Full(<<>>, Modifier.None)>>), Star),     \* /a*
      URLPattern(Source(<<Fx(<<"/", "a">>), Full(<<"/">>, Modifier.None)>>), Star),  \* /a/*
      URLPattern(Source(<<Full(<<"/">>, Modifier.None)>>), Star),                   \* /*
      URLPattern(Source(<<Full(<<"/">>, Modifier.Optional)>>), Star),               \* /*?
      URLPattern(Source(<<Full(<<"/">>, Modifier.OneOrMore)>>), Star),              \* /*+
      URLPattern(Source(<<Full(<<"/">>, Modifier.ZeroOrMore)>>), Star),             \* /**
      URLPattern(Source(<<Rx("x", <<"/">>, <<"a">>, Modifier.None)>>), Star),       \* /:x(a)
      URLPattern(Source(<<Rx("x", <<"/">>, <<"a">>, Modifier.Optional)>>), Star),   \* /:x(a)?
      URLPattern(Source(<<Rx("x", <<"/">>, ClassDifference, Modifier.None)>>),
                 Star),                                                              \* /:x([a--b])
      URLPattern(Source(<<Fx(<<"/", "a">>)>>),
                 Source(<<Rx("0", <<>>, ClassDifference, Modifier.None)>>)),         \* /a ?([a--b])
      URLPattern(Source(<<Seg("x", <<"/">>, Modifier.None),
                          Fx(<<"a">>)>>), Star),                                    \* /:x{a}
      URLPattern(Source(<<Seg("x", <<"/">>, Modifier.None),
                          FxMod(<<"a">>, Modifier.ZeroOrMore)>>), Star),            \* /:x{a}*
      URLPattern(Source(<<Seg("x", <<"/">>, Modifier.ZeroOrMore),
                          Fx(<<"/", "a">>)>>), Star),                               \* /:x*/a
      URLPattern(Source(<<Seg("x", <<"/">>, Modifier.OneOrMore),
                          Fx(<<"/", "a">>)>>), Star),                               \* /:x+/a
      URLPattern(Source(<<Fx(<<"/", "a">>),
                          Seg("x", <<>>, Modifier.OneOrMore)>>), Star),             \* /a:x+
      URLPattern(Source(<<Fx(<<"/", "a">>),
                          FxMod(<<"a">>, Modifier.Optional)>>), Star),              \* /a{a}?
      URLPattern(Source(<<Fx(<<"/", "a">>), FxMod(<<"a">>, Modifier.Optional),
                          Fx(<<"a">>)>>), Star) }                                   \* /a{a}?a

KindInputs ==
    {[form |-> "relative", baseUrl |-> TRUE,
      target |-> [protocol |-> <<"h", ":">>, username |-> <<>>,
                  password |-> <<>>, hostname |-> <<"e">>, port |-> <<>>,
                  pathname |-> pathname, search |-> search, hash |-> <<>>]] :
        pathname \in Pathnames, search \in {<<>>, <<"?", "a">>}}

AddKindPattern == AddPatternFrom(KindPatternPool, {"v1"})

KindMatch ==
    /\ \E input \in KindInputs :
          /\ call' = [op |-> "match", input |-> input]
          /\ ret' = URLPatternListMatch(nodes, input)
    /\ UNCHANGED <<nodes, sequenceCounter, naive, stack, returned>>

NextKinds == AddKindPattern \/ KindMatch

SpecKinds == Init /\ [][NextKinds]_vars

\* The places a walk can be at: node n, component index i, position p.
Places(tree, components) ==
    {pl \in [n : 1..Len(tree), i : 0..(Len(components) - 1), p : 0..MaxPathLen] :
        pl.p <= Len(components[pl.i + 1].value)}

\* A node's match returns the first match found at the positions it tries.
TriedPositionsAgree ==
    call.op = "match" /\ ~newURLThrows(call.input) =>
        LET url == newURL(call.input)
            components == componentsFrom(url, 0)
        IN \A pl \in Places(nodes, components) :
              match(nodes, pl.n, components, pl.i, pl.p, url)
                = firstMatch(nodes, pl.n, components, pl.i,
                             triedPositions(nodes, pl.n, components, pl.i, pl.p), url)

(***************************************************************************)
(* Vocabulary of the properties.                                           *)
(***************************************************************************)
\* Every registered item stored in the tree.
AllItems(tree) ==
    UNION {{tree[n].patterns[k] : k \in 1..Len(tree[n].patterns)} :
             n \in 1..Len(tree)}

\* The last call was a match that resolved its URL.
Matched == call.op = "match" /\ ~ret.threw

MatchedURL == newURL(call.input)

\* The item the tree walk selects for a URL: <<>> or <<item>>.
selected(tree, url) == match(tree, 1, componentsFrom(url, 0), 0, 0, url)

\* The payload of a match result: <<>> or <<payload>>.
payloadOf(result) == IF result = <<>> THEN <<>> ELSE <<result[1].value>>

\* C1: for every sequence of addPattern calls and every URL, match returns
\* the same payload (or none) as the linear reference list, which returns the
\* first registration in insertion order whose evaluator accepts the URL.
LinearEquivalence ==
    Matched => payloadOf(ret.value) = payloadOf(naiveMatch(naive, 1, MatchedURL))

\* C2: first-registered wins: when two registered patterns both accept the
\* URL, match does not return the one with the higher sequence.
FirstRegisteredWins ==
    Matched =>
        \A pa, pb \in AllItems(nodes) :
            /\ test(pa.pattern, MatchedURL)
            /\ test(pb.pattern, MatchedURL)
            /\ pa.sequence < pb.sequence
            => selected(nodes, MatchedURL) /= <<pb>>

\* C3: match returns none if and only if no registered pattern accepts the
\* URL; on an empty index it returns none for every URL.
NoneIffNoPatternAccepts ==
    Matched =>
        /\ (ret.value = <<>>) <=>
              (\A item \in AllItems(nodes) : ~test(item.pattern, MatchedURL))
        /\ (AllItems(nodes) = {} => ret.value = <<>>)

\* C4: whenever match returns a record, the pattern it selected accepts the
\* URL, the record's result is the evaluator's exec output for that pattern,
\* and the record's value is the payload registered with that pattern.
MatchAgreesWithEvaluator ==
    Matched /\ ret.value /= <<>> =>
        LET sel == selected(nodes, MatchedURL)
        IN /\ sel /= <<>>
           /\ sel[1] \in AllItems(nodes)
           /\ test(sel[1].pattern, MatchedURL)
           /\ <<ret.value[1].result>> = exec(sel[1].pattern, MatchedURL)
           /\ ret.value[1].value = sel[1].value

MatchReturnedRecord ==
    /\ Matched
    /\ ret.value /= <<>>
    /\ Len(naive) = 2
    /\ naive[1].value /= naive[2].value
    /\ MatchedURL.search /= <<>>

\* C5: insertion monotonicity: a URL that matched pattern p before an
\* addPattern call still matches after it, and the pattern it then returns
\* is p or a pattern with a lower sequence.
InsertionMonotonic ==
    [][call'.op = "addPattern" =>
          \A url \in URLs :
              LET before == selected(nodes, url)
                  after == selected(nodes', url)
              IN before /= <<>> =>
                    /\ after /= <<>>
                    /\ after[1].sequence <= before[1].sequence]_vars

\* The nodes of the subtree rooted at n.
RECURSIVE subtree(_, _)
subtree(tree, n) ==
    {n} \cup UNION {subtree(tree, tree[n].children[k]) :
                      k \in 1..Len(tree[n].children)}

\* C6: for every node N reachable from the root, N.minSequence is at most
\* the sequence of every pattern stored at N or at a descendant of N.
MinSequenceBound ==
    \A n \in subtree(nodes, 1) :
        \A d \in subtree(nodes, n) :
            \A k \in 1..Len(nodes[d].patterns) :
                nodes[n].minSequence <= nodes[d].patterns[k].sequence

\* A node holds a pattern of its own and an earlier one below it.
EarlierPatternBelow ==
    \E n \in 2..Len(nodes) :
        /\ nodes[n].patterns /= <<>>
        /\ nodes[n].minSequence < nodes[n].patterns[1].sequence

\* The parent of a non-root node, and the nodes from the root's child to n.
parentOf(tree, n) ==
    CHOOSE m \in 1..Len(tree) :
        \E k \in 1..Len(tree[m].children) : tree[m].children[k] = n

RECURSIVE pathTo(_, _)
pathTo(tree, n) ==
    IF n = 1 THEN <<>> ELSE Append(pathTo(tree, parentOf(tree, n)), n)

\* The node whose patterns list holds the item.
nodeOf(tree, item) ==
    CHOOSE n \in 1..Len(tree) :
        \E k \in 1..Len(tree[n].patterns) : tree[n].patterns[k] = item

\* What structural equivalence compares: everything but the name.
structureOf(part) ==
    <<part.type, part.urlComponentType, part.modifier, part.value, part.prefix,
      part.suffix>>

structuralPrefix(parts, k) == [m \in 1..k |-> structureOf(parts[m])]

\* C7: two registrations whose parts agree structurally on their first k
\* parts pass through the same first k nodes, and the number of non-root
\* nodes is at most the number of distinct structural prefixes registered.
StructuralSharing ==
    /\ \A pa, pb \in AllItems(nodes) :
          LET partsA == parseFullURL(pa.pattern)
              partsB == parseFullURL(pb.pattern)
              pathA == pathTo(nodes, nodeOf(nodes, pa))
              pathB == pathTo(nodes, nodeOf(nodes, pb))
          IN \A k \in 1..Min(Len(partsA), Len(partsB)) :
                structuralPrefix(partsA, k) = structuralPrefix(partsB, k)
                => /\ Len(pathA) >= k
                   /\ Len(pathB) >= k
                   /\ SubSeq(pathA, 1, k) = SubSeq(pathB, 1, k)
    /\ Len(nodes) - 1 <=
          Cardinality(UNION {{structuralPrefix(parseFullURL(item.pattern), k) :
                                k \in 1..Len(parseFullURL(item.pattern))} :
                               item \in AllItems(nodes)})

\* Two registrations that differ in a capture name end at one shared node.
SharedNodeAcrossNames ==
    \E n \in 2..Len(nodes) :
        /\ Len(nodes[n].patterns) = 2
        /\ nodes[n].patterns[1].pattern /= nodes[n].patterns[2].pattern

\* C9: addPattern is atomic on parser failure: the error is propagated and
\* the tree and the sequence counter are unchanged, so the next successful
\* add receives the next consecutive sequence number.
AddPatternAtomicOnParseFailure ==
    [][call'.op = "addPattern" =>
          /\ ret'.threw <=> parseThrows(call'.pattern)
          /\ ret'.threw => nodes' = nodes /\ sequenceCounter' = sequenceCounter
          /\ ~ret'.threw =>
                AllItems(nodes') \ AllItems(nodes) =
                    {[sequence |-> Cardinality(AllItems(nodes)),
                      pattern |-> call'.pattern, value |-> call'.value]}]_vars

\* Recursion only descends: below URLPatternList.match the stack starts at
\* the root, tryPatternsAndChildren calls the match of a child of its node,
\* and a match calls tryPatternsAndChildren of its own node.
DescendsOnly ==
    /\ Len(stack) >= 2 => stack[2].fn = "match" /\ stack[2].n = 1
    /\ \A j \in 2..(Len(stack) - 1) :
          IF stack[j].fn = "match"
            THEN /\ stack[j + 1].fn = "tryPatternsAndChildren"
                 /\ stack[j + 1].n = stack[j].n
            ELSE /\ stack[j + 1].fn = "match"
                 /\ \E k \in 1..Len(nodes[stack[j].n].children) :
                       nodes[stack[j].n].children[k] = stack[j + 1].n

\* A match call in progress always has a next step to take.
CanStep ==
    stack /= <<>> =>
        LET kind == nodes[top.n].kind
        IN CASE top.fn = "URLPatternList.match" -> TRUE
             [] top.fn = "tryPatternsAndChildren" ->
                   top.pc \in {"children", "childReturn", "patterns"}
             [] top.fn = "match" /\ kind = "Root" -> top.pc \in {"enter", "tail"}
             [] top.fn = "match" /\ kind = "Fixed" ->
                   top.pc \in {"enter", "repeat", "tail"}
             [] top.fn = "match" /\ kind = "Wildcard" ->
                   top.pc \in {"enter", "zeroReturn", "segments", "segmentReturn",
                               "content", "contentReturn", "prefixLoop",
                               "zeroFirstReturn", "consume", "tail"}
             [] top.fn = "match" /\ kind = "FullWildcard" ->
                   top.pc \in {"enter", "fullZeroReturn", "fullConsume", "shrink",
                               "shrinkReturn", "tail"}
             [] top.fn = "match" /\ kind = "Regex" -> top.pc \in {"enter", "tail"}

\* What an activation still has ahead of it: the iterations its loop has
\* left, counted twice so that the call inside an iteration counts too,
\* plus the places that follow the loop.
workLeft(frame) ==
    LET node == nodes[frame.n]
        length == Len(componentValue(frame))
        calling == IF frame.pc \in {"children", "segments", "content", "shrink"}
                     THEN 1 ELSE 0
    IN CASE frame.fn = "URLPatternList.match" -> 0
         [] frame.fn = "tryPatternsAndChildren" /\ frame.pc = "patterns" ->
               Len(node.patterns) + 1 - frame.i
         [] frame.fn = "tryPatternsAndChildren" /\ frame.pc /= "patterns" ->
               Len(node.patterns) + 1
                 + 2 * (Len(node.children) + 1 - frame.i) + calling
         [] frame.fn = "match" ->
               CASE frame.pc = "tail" -> 0
                 [] frame.pc = "enter" -> 2 * length + 6
                 [] frame.pc = "repeat" -> 1 + length - frame.i
                 [] frame.pc = "zeroReturn" -> 2 * Len(segmentsOf(frame)) + 2
                 [] frame.pc \in {"segments", "segmentReturn"} ->
                       2 * (Len(segmentsOf(frame)) + 1 - frame.i) + calling
                 [] frame.pc \in {"content", "contentReturn"} ->
                       2 * (Len(remainingOf(frame)) - frame.aux + 1 - frame.i)
                         + calling
                 [] frame.pc = "prefixLoop" ->
                       2 + Len(remainingOf(frame)) - frame.i
                 [] frame.pc = "zeroFirstReturn" -> 2
                 [] frame.pc = "consume" -> 1
                 [] frame.pc = "fullZeroReturn" ->
                       2 * (length - frame.position + 1) + 3
                 [] frame.pc = "fullConsume" ->
                       2 * (length - frame.position + 1) + 2
                 [] frame.pc \in {"shrink", "shrinkReturn"} ->
                       2 * (frame.i + 1) + calling

\* The work left on the whole stack, outermost activation first.
workLeftOn(frames) == [j \in 1..Len(frames) |-> workLeft(frames[j])]

\* The order of the stacks of work: a return (a proper prefix) is less, and
\* so is less work in the outermost activation in which two stacks differ.
\* The stacks have bounded depth and hold natural numbers, so no chain of
\* ever lesser stacks is infinite.
LessWork(a, b) ==
    \/ Len(a) < Len(b) /\ a = SubSeq(b, 1, Len(a))
    \/ \E k \in 1..Min(Len(a), Len(b)) :
          /\ a[k] < b[k]
          /\ \A j \in 1..(k - 1) : a[j] = b[j]

\* C8: every match call terminates, for every tree built by addPattern and
\* every URL: recursion only descends from a node to its children, a call
\* in progress always has a next step, and every step of it (an iteration
\* of a consumption loop, a call, a return) leaves less work on the stack.
MatchTerminates ==
    /\ [](DescendsOnly /\ CanStep /\ \A j \in 1..Len(stack) : workLeft(stack[j]) >= 0)
    /\ [][stack /= <<>> =>
             LET before == workLeftOn(stack)
                 after == workLeftOn(stack')
             IN LessWork(after, before)]_vars

\* A match call on a tree with a "*" node below a "*" node has returned, for
\* a pathname of the greatest length.
NestedWildcardMatchReturned ==
    /\ call.op = "match"
    /\ stack = <<>>
    /\ ~ret.threw
    /\ Len(call.input.target.pathname) = MaxPathLen
    /\ \E n \in 2..Len(nodes) :
          /\ nodes[n].kind = "FullWildcard"
          /\ \E k \in 1..Len(nodes[n].children) :
                nodes[nodes[n].children[k]].kind = "FullWildcard"

\* A rejected add on an index that already holds a registration.
RejectedAddOnNonEmptyIndex ==
    /\ call.op = "addPattern"
    /\ ret.threw
    /\ AllItems(nodes) /= {}

\* C10: given a string that cannot be resolved to a URL against the base,
\* match returns none and does not raise.
UnresolvableURLReturnsNone ==
    call.op = "match" /\ newURLThrows(call.input) =>
        ~ret.threw /\ ret.value = <<>>

\* C11: match is read-only: no step of a match call, from the call to its
\* return, changes a node's children, patterns, minSequence or matching data,
\* or the sequence counter, whether the call returns a record or none.
MatchIsReadOnly ==
    [][call'.op = "match" => nodes' = nodes /\ sequenceCounter' = sequenceCounter]_vars

\* A match call has walked a tree of several nodes and returned a record.
MatchReturnedOnGrownTree ==
    /\ call.op = "match"
    /\ stack = <<>>
    /\ ret.value /= <<>>
    /\ Len(nodes) >= 4
    /\ sequenceCounter = MaxPatterns

\* The entries of the patterns lists: <<n, k>> is the k-th entry of node n.
Entries(tree) ==
    UNION {{<<n, k>> : k \in 1..Len(tree[n].patterns)} : n \in 1..Len(tree)}

entry(tree, e) == tree[e[1]].patterns[e[2]]

\* C12: sequence numbers are assigned in strictly increasing order of
\* successful registration and are never reused: no two entries of one index
\* carry the same sequence, every sequence handed out is below the counter,
\* and a registration receives a sequence larger than every earlier one.
SequencesStrictlyIncrease ==
    /\ [](\A ea, eb \in Entries(nodes) :
             /\ entry(nodes, ea).sequence = entry(nodes, eb).sequence => ea = eb
             /\ entry(nodes, ea).sequence < sequenceCounter)
    /\ [][call'.op = "addPattern" /\ ~ret'.threw =>
             \A new \in AllItems(nodes') \ AllItems(nodes), old \in AllItems(nodes) :
                new.sequence > old.sequence]_vars

\* One pattern registered three times holds three different sequences.
SamePatternThreeSequences ==
    /\ call.op = "addPattern"
    /\ \E n \in 1..Len(nodes) :
          /\ Len(nodes[n].patterns) = 3
          /\ nodes[n].patterns[1].pattern = nodes[n].patterns[3].pattern
          /\ nodes[n].patterns[1].sequence < nodes[n].patterns[2].sequence
          /\ nodes[n].patterns[2].sequence < nodes[n].patterns[3].sequence

isPrefix(a, b) == Len(a) <= Len(b) /\ a = SubSeq(b, 1, Len(a))

\* What a node matches with: its class and the fields its matching reads.
matchingData(node) ==
    <<node.kind, node.urlComponentType, node.value, node.modifier, node.prefix,
      node.suffix>>

\* C13: the tree is append-only: across an addPattern call no node is
\* removed, every node that existed keeps its kind and matching data, and
\* its children list and patterns list before the call are prefixes of the
\* same lists after the call.
TreeIsAppendOnly ==
    [][call'.op = "addPattern" =>
          /\ Len(nodes') >= Len(nodes)
          /\ \A n \in 1..Len(nodes) :
                /\ matchingData(nodes'[n]) = matchingData(nodes[n])
                /\ isPrefix(nodes[n].children, nodes'[n].children)
                /\ isPrefix(nodes[n].patterns, nodes'[n].patterns)]_vars

\* After three registrations a node has a second child, created by a later
\* registration than its first, and a node holds two patterns.
NodeGrewTwice ==
    /\ call.op = "addPattern"
    /\ sequenceCounter = 3
    /\ \E n \in 1..Len(nodes) :
          /\ Len(nodes[n].children) >= 2
          /\ nodes[nodes[n].children[2]].minSequence >= 1
          /\ \E m \in 1..Len(nodes) : Len(nodes[m].patterns) >= 2

\* C14: after any sequence of addPattern calls the children of every node
\* are pairwise structurally non-equivalent: no two children of one node
\* have the same kind, component, modifier, value, prefix and suffix.  A
\* node's data are a function of the part it was created from, so two
\* children created from equal parts would have equal data.
ChildrenPairwiseDistinct ==
    \A n \in 1..Len(nodes) :
        \A j, k \in 1..Len(nodes[n].children) :
            j /= k =>
                /\ nodes[n].children[j] /= nodes[n].children[k]
                /\ matchingData(nodes[nodes[n].children[j]])
                      /= matchingData(nodes[nodes[n].children[k]])

\* Three registrations, two of them through one child: a node has two
\* children of one kind that differ in a single field, and one of them was
\* used again.
SiblingsOfOneKind ==
    /\ sequenceCounter = 3
    /\ \E n \in 1..Len(nodes) :
          /\ Len(nodes[n].children) = 2
          /\ nodes[nodes[n].children[1]].kind = nodes[nodes[n].children[2]].kind
          /\ \E k \in 1..2 : Len(nodes[nodes[n].children[k]].patterns) = 2

\* Node n is the node reached from the root by consuming the parts in order.
reachedBy(tree, n, parts) ==
    LET path == pathTo(tree, n)
    IN /\ Len(path) = Len(parts)
       /\ \A j \in 1..Len(parts) : matchesPart(tree[path[j]], parts[j])

\* C15: after N successful addPattern calls the tree stores exactly N
\* pattern entries: the k-th registration appears in the patterns list of
\* exactly one node, the node reached after consuming all of its parts, and
\* appears there once, whatever the modifiers of its parts.
OneEntryPerRegistration ==
    /\ Cardinality(Entries(nodes)) = Len(naive)
    /\ \A k \in 1..Len(naive) :
          LET holders == {e \in Entries(nodes) : entry(nodes, e).sequence = k - 1}
          IN /\ Cardinality(holders) = 1
             /\ \A e \in holders :
                   /\ entry(nodes, e).pattern = naive[k].pattern
                   /\ entry(nodes, e).value = naive[k].value
                   /\ reachedBy(nodes, e[1], parseFullURL(naive[k].pattern))

\* Three registrations whose last parts are optional, repeated from zero
\* and repeated from one.
EntriesBelowEveryModifier ==
    /\ Len(naive) = 3
    /\ \A modifier \in {Modifier.Optional, Modifier.ZeroOrMore, Modifier.OneOrMore} :
          \E e \in Entries(nodes) : nodes[e[1]].modifier = modifier

\* The set of the elements of a sequence.
Range(seq) == {seq[k] : k \in 1..Len(seq)}

\* <<>> or the item of the lowest sequence.
lowest(items) ==
    IF items = {} THEN <<>>
    ELSE <<CHOOSE x \in items : \A y \in items : x.sequence <= y.sequence>>

\* The accepted terminating patterns the walk can reach from node n at
\* component index i: reachableFrom when the node has consumed up to position
\* q, reachable over every position the node's match tries from position p.
\* The walk reaches a child at the place tryPatternsAndChildren calls it
\* with, and a node's own patterns when that method offers them.
RECURSIVE reachable(_, _, _, _, _, _)
RECURSIVE reachableFrom(_, _, _, _, _, _)
reachableFrom(tree, n, components, i, q, url) ==
    LET consumed == q >= Len(components[i + 1].value)
        advancedComponentIndex == advance(tree, n, components, i, q).componentIndex
        advancedPosition == advance(tree, n, components, i, q).position
        below ==
            UNION {LET c == tree[n].children[k]
                       start == childStart(tree, c, components,
                                           advancedComponentIndex, advancedPosition)
                   IN IF start = <<>> THEN {}
                      ELSE reachable(tree, c, components, start[1].componentIndex,
                                     start[1].position, url) :
                     k \in 1..Len(tree[n].children)}
        own == {item \in Range(tree[n].patterns) : test(item.pattern, url)}
    IN IF consumed /\ (advancedComponentIndex >= Len(components) \/ below = {})
         THEN below \cup own
         ELSE below

reachable(tree, n, components, i, p, url) ==
    UNION {reachableFrom(tree, n, components, i, q, url) :
             q \in Range(triedPositions(tree, n, components, i, p))}

\* C16: for every node N, component index i and position p, the recursive
\* match step returns the lowest-sequence evaluator-accepted pattern among
\* the terminating patterns the walk can reach in the subtree of N over all
\* the consumption lengths of N, or none if there is none.
MatchReturnsLowestReachable ==
    Matched =>
        LET components == componentsFrom(MatchedURL, 0)
        IN \A pl \in Places(nodes, components) :
              match(nodes, pl.n, components, pl.i, pl.p, MatchedURL)
                = lowest(reachable(nodes, pl.n, components, pl.i, pl.p, MatchedURL))

\* What the k-th child of node n returns when the walk is at the place pl:
\* <<>> when the loop skips the child for want of a component of its type.
childResult(tree, components, pl, k, url) ==
    LET c == tree[pl.n].children[k]
        adv == advance(tree, pl.n, components, pl.i, pl.p)
        start == childStart(tree, c, components, adv.componentIndex, adv.position)
    IN IF start = <<>> THEN <<>>
       ELSE match(tree, c, components, start[1].componentIndex, start[1].position, url)

\* What the loop over the children of the place pl leaves in bestMatch.
fromChildrenAt(tree, components, pl, url) ==
    LET adv == advance(tree, pl.n, components, pl.i, pl.p)
    IN tryChildren(tree, pl.n, 1, <<>>, components, adv.componentIndex,
                   adv.position, url)

\* C17: within one tryPatternsAndChildren call the candidate kept from the
\* children is the lowest-sequence result over the children, whatever their
\* insertion order: a match of a later sibling with a lower sequence
\* replaces the match of an earlier sibling.  The children the pruning test
\* skips are counted too, which makes the statement the stronger one.
ChildrenCandidateIsLowest ==
    Matched =>
        LET components == componentsFrom(MatchedURL, 0)
        IN \A pl \in Places(nodes, components) :
              fromChildrenAt(nodes, components, pl, MatchedURL)
                = lowest(UNION {Range(childResult(nodes, components, pl, k, MatchedURL)) :
                                  k \in 1..Len(nodes[pl.n].children)})

\* The walk from the root found a match below an earlier child and a match
\* of a lower sequence below a later child, and match returned the latter.
LaterSiblingWon ==
    /\ Matched
    /\ LET components == componentsFrom(MatchedURL, 0)
           root == [n |-> 1, i |-> 0, p |-> 0]
       IN \E j, k \in 1..Len(nodes[1].children) :
             LET first == childResult(nodes, components, root, j, MatchedURL)
                 second == childResult(nodes, components, root, k, MatchedURL)
             IN /\ j < k
                /\ first /= <<>>
                /\ second /= <<>>
                /\ second[1].sequence < first[1].sequence
                /\ selected(nodes, MatchedURL) = second

\* C18: subtree pruning is sound: skipping every child whose minSequence is
\* above the sequence of the best match so far never changes the outcome.
\* At every place the loop over the children leaves the same candidate with
\* the pruning test as without it; as the children of either loop are
\* matched by the same rule, the whole walk with pruning returns what the
\* walk without pruning returns, by induction from the leaves up.
PruningIsSound ==
    Matched =>
        LET components == componentsFrom(MatchedURL, 0)
        IN \A pl \in Places(nodes, components) :
              LET adv == advance(nodes, pl.n, components, pl.i, pl.p)
              IN fromChildrenAt(nodes, components, pl, MatchedURL)
                   = tryChildrenUnpruned(nodes, pl.n, 1, <<>>, components,
                                         adv.componentIndex, adv.position, MatchedURL)

\* The walk from the root skipped a child that would have returned a match:
\* an earlier child had returned a match of a sequence below the later
\* child's minSequence.
PrunedChildWouldMatch ==
    /\ Matched
    /\ LET components == componentsFrom(MatchedURL, 0)
           root == [n |-> 1, i |-> 0, p |-> 0]
       IN \E j, k \in 1..Len(nodes[1].children) :
             LET first == childResult(nodes, components, root, j, MatchedURL)
                 second == childResult(nodes, components, root, k, MatchedURL)
             IN /\ j < k
                /\ first /= <<>>
                /\ second /= <<>>
                /\ nodes[nodes[1].children[k]].minSequence > first[1].sequence

\* C19: a node's own terminating patterns are offered to the evaluator
\* when, and only when, the current component is fully consumed and either
\* it is the URL's last component or the children produced no candidate;
\* they are then walked in insertion order, skipping those that cannot beat
\* the best so far.  Stated on what tryPatternsAndChildren returns: with the
\* patterns offered it is the lowest of the children's candidate and the
\* accepted own patterns, otherwise it is the children's candidate.
OwnPatternsOfferedWhenConsumed ==
    Matched =>
        LET components == componentsFrom(MatchedURL, 0)
        IN \A pl \in Places(nodes, components) :
              LET consumed == pl.p >= Len(components[pl.i + 1].value)
                  isLast == pl.i = Len(components) - 1
                  fromChildren == fromChildrenAt(nodes, components, pl, MatchedURL)
                  own == {item \in Range(nodes[pl.n].patterns) :
                            test(item.pattern, MatchedURL)}
              IN tryPatternsAndChildren(nodes, pl.n, components, pl.i, pl.p, MatchedURL)
                   = IF consumed /\ (isLast \/ fromChildren = <<>>)
                       THEN lowest(Range(fromChildren) \cup own)
                       ELSE fromChildren

least(numbers) == CHOOSE x \in numbers : \A y \in numbers : x <= y

\* C22: after any sequence of addPattern calls every node's minSequence is
\* exactly the minimum of the sequences of its own patterns and of the
\* minSequence values of its children: for every non-root node always, for
\* the root as soon as one pattern is registered.
MinSequenceIsExact ==
    \A n \in 1..Len(nodes) :
        LET below == {nodes[n].patterns[k].sequence : k \in 1..Len(nodes[n].patterns)}
                       \cup {nodes[nodes[n].children[k]].minSequence :
                               k \in 1..Len(nodes[n].children)}
        IN (n /= 1 \/ sequenceCounter > 0) =>
              /\ below /= {}
              /\ nodes[n].minSequence = least(below)

\* A node whose minimum comes from a child while its own pattern and
\* another child lie above it.
MinimumFromChild ==
    \E n \in 2..Len(nodes) :
        /\ nodes[n].patterns /= <<>>
        /\ Len(nodes[n].children) = 2
        /\ nodes[n].minSequence < nodes[n].patterns[1].sequence
        /\ nodes[n].minSequence < nodes[nodes[n].children[2]].minSequence

\* C30: a node's minSequence is fixed by the first addPattern call that
\* passes through it (for a non-root node the call that creates it) and
\* equals that registration's sequence; no later call changes it.
MinSequenceFixedAtFirstPass ==
    [][call'.op = "addPattern" /\ nodes' /= nodes =>
          /\ \A n \in 1..Len(nodes) :
                nodes[n].minSequence /= MAX_SAFE_INTEGER =>
                    nodes'[n].minSequence = nodes[n].minSequence
          /\ \A n \in 1..Len(nodes') :
                (n > Len(nodes) \/ nodes[n].minSequence = MAX_SAFE_INTEGER) =>
                    nodes'[n].minSequence = sequenceCounter]_vars

\* The third registration ended on a node that the first one created and
\* the second one passed through.
ThirdPassThroughNode ==
    /\ call.op = "addPattern"
    /\ \E n \in 2..Len(nodes) :
          /\ nodes[n].minSequence = 0
          /\ nodes[n].patterns /= <<>>
          /\ nodes[n].patterns[Len(nodes[n].patterns)].sequence = 2
          /\ \E d \in subtree(nodes, n) \ {n} :
                \E k \in 1..Len(nodes[d].patterns) : nodes[d].patterns[k].sequence = 1

\* C27: after any sequence of addPattern calls the root holds no
\* terminating patterns: its patterns list is empty and every registered
\* pattern terminates at a non-root node, also a pattern whose every
\* component is the catch-all, so that its part list is empty.
RootHoldsNoPatterns ==
    /\ nodes[1].patterns = <<>>
    /\ \A sequence \in 0..(sequenceCounter - 1) :
          \E n \in 2..Len(nodes) :
              \E j \in 1..Len(nodes[n].patterns) :
                  nodes[n].patterns[j].sequence = sequence

\* C21: addPattern reuses an existing child for a part only if the part that
\* created the child is structurally equivalent to it (equal in kind,
\* component, modifier, value, prefix and suffix); otherwise it appends a
\* new node.  So two registrations that pass through the same node at depth
\* k have structurally equivalent k-th parts, for all four kinds, also for
\* Regex parts that differ only in modifier or prefix and FullWildcard parts
\* that differ only in prefix.
ReuseOnlyIfEquivalent ==
    \A pa, pb \in AllItems(nodes) :
        LET partsA == parseFullURL(pa.pattern)
            partsB == parseFullURL(pb.pattern)
            pathA == pathTo(nodes, nodeOf(nodes, pa))
            pathB == pathTo(nodes, nodeOf(nodes, pb))
        IN \A k \in 1..Min(Len(partsA), Len(partsB)) :
              pathA[k] = pathB[k] => structureOf(partsA[k]) = structureOf(partsB[k])

\* The places whose node is a segment wildcard without modifier that has a
\* child, in a component of its own tag.
ContentPlaces(tree, components) ==
    {pl \in Places(tree, components) :
        /\ tree[pl.n].kind = "Wildcard"
        /\ tree[pl.n].modifier = Modifier.None
        /\ Len(tree[pl.n].children) > 0
        /\ components[pl.i + 1].type = tree[pl.n].urlComponentType}

\* The content lengths k at which the continuation at p + |prefix| + k
\* yields a candidate.
contentHits(tree, components, pl, url) ==
    LET remaining == slice(components[pl.i + 1].value, pl.p)
        afterPrefix == slice(remaining, Len(tree[pl.n].prefix))
    IN {k \in 1..Len(afterPrefix) :
           tryPatternsAndChildren(tree, pl.n, components, pl.i,
                                  pl.p + Len(tree[pl.n].prefix) + k, url) /= <<>>}

LeafFullWildcardPlaces(tree, components) ==
    {pl \in Places(tree, components) :
        /\ tree[pl.n].kind = "FullWildcard"
        /\ Len(tree[pl.n].children) = 0
        /\ components[pl.i + 1].type = tree[pl.n].urlComponentType}

\* C24: a full wildcard node without children, for every modifier and
\* every position p up to the length of the component text: when the
\* zero-consumption attempt (made only for Optional, ZeroOrMore and
\* OneOrMore) has produced nothing, the node consumes to the end of the
\* component and considers its patterns with the component fully consumed.
LeafFullWildcardConsumesToEnd ==
    Matched =>
        LET components == componentsFrom(MatchedURL, 0)
        IN \A pl \in LeafFullWildcardPlaces(nodes, components) :
              LET zeroMatch ==
                      IF nodes[pl.n].modifier /= Modifier.None
                        THEN tryPatternsAndChildren(nodes, pl.n, components, pl.i,
                                                    pl.p, MatchedURL)
                        ELSE <<>>
              IN match(nodes, pl.n, components, pl.i, pl.p, MatchedURL) =
                    IF zeroMatch /= <<>> THEN zeroMatch
                    ELSE tryPatternsAndChildren(nodes, pl.n, components, pl.i,
                             Len(components[pl.i + 1].value), MatchedURL)

\* The places whose node is a regex node that kept no compiled expression,
\* in a component of its own tag.
InvalidRegexPlaces(tree, components) ==
    {pl \in Places(tree, components) :
        /\ tree[pl.n].kind = "Regex"
        /\ tree[pl.n].regex = "null"
        /\ components[pl.i + 1].type = tree[pl.n].urlComponentType}

\* Where the text a regex node tests starts and ends: in the pathname the
\* segment after an optional leading slash, elsewhere the remainder.
segmentBounds(urlComponentType, text, p) ==
    LET from == IF urlComponentType = URLComponentType.Pathname
                     /\ p < Len(text) /\ text[p + 1] = "/"
                  THEN p + 1 ELSE p
        slashes == {q \in from..(Len(text) - 1) : text[q + 1] = "/"}
        to == IF urlComponentType = URLComponentType.Pathname /\ slashes /= {}
                THEN least(slashes) ELSE Len(text)
    IN [from |-> from, to |-> to]

\* C25: a regex source that does not compile never makes addPattern fail;
\* the node remembers the failure and at match time accepts every non-empty
\* segment (pathname) or non-empty remainder (other components), continuing
\* behind it, and still refuses an empty one.
InvalidRegexIsPermissive ==
    /\ call.op = "addPattern"
          /\ (\E k \in 1..Len(parseFullURL(call.pattern)) :
                 /\ parseFullURL(call.pattern)[k].type = PartType.Regex
                 /\ ~RegExpCompiles(parseFullURL(call.pattern)[k].value))
       => /\ ~ret.threw
          /\ \E item \in AllItems(nodes) :
                item.sequence = sequenceCounter - 1 /\ item.pattern = call.pattern
    /\ \A n \in 1..Len(nodes) :
          nodes[n].kind = "Regex" =>
              (nodes[n].regex = "null" <=> ~RegExpCompiles(nodes[n].value))
    /\ Matched =>
          LET components == componentsFrom(MatchedURL, 0)
          IN \A pl \in InvalidRegexPlaces(nodes, components) :
                LET bounds == segmentBounds(nodes[pl.n].urlComponentType,
                                            components[pl.i + 1].value, pl.p)
                IN match(nodes, pl.n, components, pl.i, pl.p, MatchedURL) =
                      IF bounds.to > bounds.from
                        THEN tryPatternsAndChildren(nodes, pl.n, components, pl.i,
                                                    bounds.to, MatchedURL)
                        ELSE <<>>

\* A match returned a pattern stored at a search node whose regex did not
\* compile, below a pathname node whose regex did not compile either.
ReturnedThroughInvalidRegex ==
    /\ Matched
    /\ selected(nodes, MatchedURL) /= <<>>
    /\ LET n == nodeOf(nodes, selected(nodes, MatchedURL)[1])
       IN /\ nodes[n].kind = "Regex"
          /\ nodes[n].regex = "null"
          /\ nodes[n].urlComponentType = URLComponentType.Search
    /\ \E m \in 2..Len(nodes) :
          /\ nodes[m].kind = "Regex"
          /\ nodes[m].regex = "null"
          /\ nodes[m].urlComponentType = URLComponentType.Pathname

\* The places whose node has the modifier OneOrMore and is a full wildcard
\* or a segment wildcard without children, in a component of its own tag,
\* where normal consumption can consume nothing.
NothingToConsumePlaces(tree, components) ==
    {pl \in Places(tree, components) :
        LET node == tree[pl.n]
            remaining == slice(components[pl.i + 1].value, pl.p)
        IN /\ node.modifier = Modifier.OneOrMore
           /\ components[pl.i + 1].type = node.urlComponentType
           /\ \/ node.kind = "FullWildcard" /\ Len(remaining) = 0
              \/ /\ node.kind = "Wildcard"
                 /\ Len(node.children) = 0
                 /\ (IF node.prefix /= <<>> /\ node.prefix /= <<"/">>
                       THEN matchOneOrMoreWithPrefix(node, remaining)
                       ELSE matchMultipleSegments(node, remaining, TRUE)) <= 0}

\* C26: a node with modifier OneOrMore (a segment wildcard without children
\* as well as a full wildcard) that can consume nothing at p still attempts
\* zero consumption: it continues with its patterns and children at
\* unchanged p, and what that yields is its result.
OneOrMoreTriesZero ==
    Matched =>
        LET components == componentsFrom(MatchedURL, 0)
        IN \A pl \in NothingToConsumePlaces(nodes, components) :
              /\ pl.p \in Range(triedPositions(nodes, pl.n, components, pl.i, pl.p))
              /\ match(nodes, pl.n, components, pl.i, pl.p, MatchedURL) =
                    tryPatternsAndChildren(nodes, pl.n, components, pl.i, pl.p,
                                           MatchedURL)

\* The places whose node is a fixed node with the modifier Optional.
OptionalFixedPlaces(tree, components) ==
    {pl \in Places(tree, components) :
        tree[pl.n].kind = "Fixed" /\ tree[pl.n].modifier = Modifier.Optional}

inRange(components, i, p) ==
    /\ 0 <= i
    /\ i < Len(components)
    /\ 0 <= p
    /\ p <= Len(components[i + 1].value)

\* Where tryPatternsAndChildren of node n, called at (i, q), starts the
\* children it does not skip.
childStarts(tree, n, components, i, q) ==
    LET from == advance(tree, n, components, i, q)
    IN UNION {Range(childStart(tree, tree[n].children[k], components,
                               from.componentIndex, from.position)) :
                k \in 1..Len(tree[n].children)}

\* C29: at every recursive step of match the arguments stay in range: the
\* component index i satisfies 0 <= i < number of URL components and the
\* position p satisfies 0 <= p <= length of components[i].text.  The walk
\* starts in range at the root, a node entered in range calls
\* tryPatternsAndChildren in range, and tryPatternsAndChildren called in
\* range enters every child in range.
ArgumentsStayInRange ==
    Matched =>
        LET components == componentsFrom(MatchedURL, 0)
        IN /\ inRange(components, 0, 0)
           /\ \A pl \in Places(nodes, components) :
                 /\ \A q \in Range(triedPositions(nodes, pl.n, components, pl.i, pl.p)) :
                       inRange(components, pl.i, q)
                 /\ \A start \in childStarts(nodes, pl.n, components, pl.i, pl.p) :
                       inRange(components, start.componentIndex, start.position)

\* A match returned a pattern from a child that was entered in a later
\* component than its parent, after the parent consumed its component to
\* the end.
ReturnedAcrossComponents ==
    /\ Matched
    /\ selected(nodes, MatchedURL) /= <<>>
    /\ LET components == componentsFrom(MatchedURL, 0)
       IN \E pl \in Places(nodes, components) :
             /\ pl.n /= 1
             /\ pl.p = Len(components[pl.i + 1].value)
             /\ \E k \in 1..Len(nodes[pl.n].children) :
                   LET from == advance(nodes, pl.n, components, pl.i, pl.p)
                       start == childStart(nodes, nodes[pl.n].children[k], components,
                                           from.componentIndex, from.position)
                   IN /\ start /= <<>>
                      /\ start[1].componentIndex > pl.i
                      /\ match(nodes, nodes[pl.n].children[k], components,
                               start[1].componentIndex, start[1].position,
                               MatchedURL) = selected(nodes, MatchedURL)

====
